---- MODULE Spec2Model ----
(***************************************************************************)
(* kafka-bridge: the per-route match cache (internal/store) and the        *)
(* matching engine (internal/engine) built on it.                          *)
(*                                                                         *)
(* Go strings are modelled as sequences of one-character strings, so that  *)
(* indexing, slicing and concatenation are computed as the code computes   *)
(* them: "24/1" is <<"2","4","/","1">>.                                    *)
(***************************************************************************)
EXTENDS Integers, Sequences, FiniteSets, TLC

(***************************************************************************)
(* Bounds of the model.                                                    *)
(***************************************************************************)
\* longest value list handed to Load for one route
MaxLoadLen == 2
\* longest value list handed to Matcher.AddValues
MaxValuesLen == 2

(***************************************************************************)
(* Strings.                                                                *)
(***************************************************************************)
Digits == {"0", "1", "2", "3", "4", "5", "6", "7", "8", "9"}

\* the bytes used by the model's strings, in ascending byte order
Alphabet ==
  <<" ", "-", ".", "/", "0", "1", "2", "3", "4", "5", "6", "7", "8", "9", ":", "<",
    "=", ">", "E", "N", "V", "[", "\\", "]",
    "a", "b", "c", "e", "f", "i", "k", "l", "m", "n", "p", "r", "s", "t", "u",
    "v", "x", "z">>

CharCode(c) == CHOOSE i \in 1..Len(Alphabet) : Alphabet[i] = c

\* Go's s < t on strings: bytewise lexicographic order
RECURSIVE StrLess(_, _)
StrLess(s, t) ==
  IF t = << >> THEN FALSE
  ELSE IF s = << >> THEN TRUE
  ELSE IF Head(s) = Head(t) THEN StrLess(Tail(s), Tail(t))
  ELSE CharCode(Head(s)) < CharCode(Head(t))

HasPrefix(s, p) == Len(s) >= Len(p) /\ SubSeq(s, 1, Len(p)) = p

\* unicode.IsDigit(rune(b)) for a byte b: among the runes U+0000..U+00FF only
\* '0'..'9' are decimal digits
isDigit(r) == r \in Digits

\* yearVariants that strips any leading "20" without looking at what follows
yearVariantsAnyPrefix(v) ==
  {v} \cup
  (IF Len(v) >= 3 /\ isDigit(v[1]) /\ isDigit(v[2]) /\ v[3] = "/"
     THEN {<<"2", "0">> \o v} ELSE {}) \cup
  (IF Len(v) >= 5 /\ HasPrefix(v, <<"2", "0">>)
     THEN {SubSeq(v, 3, Len(v))} ELSE {})

yearVariants(v) ==
  {v} \cup
  (IF Len(v) >= 3 /\ isDigit(v[1]) /\ isDigit(v[2]) /\ v[3] = "/"
     THEN {<<"2", "0">> \o v} ELSE {}) \cup
  (IF Len(v) >= 5 /\ HasPrefix(v, <<"2", "0">>) /\ isDigit(v[3]) /\ isDigit(v[4])
        /\ v[5] = "/"
     THEN {SubSeq(v, 3, Len(v))} ELSE {})

(***************************************************************************)
(* MatchStore: values is a Go map route -> set of fingerprints; a route    *)
(* that has no entry is absent from the function's domain.                 *)
(***************************************************************************)
RouteA == "route-a"
RouteB == "route-b"
Routes == {RouteA, RouteB}

\* NewMatchStore
EmptyStore == [r \in {} |-> {}]

\* Add with one fingerprint set shared by the routes
StoreAddSharedSet(s, route, fingerprint) ==
  LET routeMap == IF route \in DOMAIN s THEN s[route] ELSE {}
  IN  [ret   |-> fingerprint \notin routeMap,
       store |-> [r \in DOMAIN s \cup {route} |->
                    (IF r \in DOMAIN s THEN s[r] ELSE {}) \cup {fingerprint}]]

\* Add that starts a new map for the route on every insertion
StoreAddFreshMap(s, route, fingerprint) ==
  [ret   |-> IF route \in DOMAIN s THEN fingerprint \notin s[route] ELSE TRUE,
   store |-> [r \in DOMAIN s \cup {route} |->
                IF r = route
                  THEN (IF r \in DOMAIN s /\ fingerprint \in s[r] THEN s[r] ELSE {fingerprint})
                  ELSE s[r]]]

\* Add that reports every call as an insertion
StoreAddAlwaysTrue(s, route, fingerprint) ==
  [ret   |-> TRUE,
   store |-> [r \in DOMAIN s \cup {route} |->
                IF r = route
                  THEN (IF r \in DOMAIN s THEN s[r] ELSE {}) \cup {fingerprint}
                  ELSE s[r]]]

\* MatchStore.Add: the returned flag and the store after the call
StoreAdd(s, route, fingerprint) ==
  LET routeMap == IF route \in DOMAIN s THEN s[route] ELSE {}
      withRoute == [r \in DOMAIN s \cup {route} |-> IF r = route THEN routeMap ELSE s[r]]
  IN  IF fingerprint \in routeMap
        THEN [ret |-> FALSE, store |-> withRoute]
        ELSE [ret |-> TRUE,
              store |-> [withRoute EXCEPT ![route] = routeMap \cup {fingerprint}]]

\* MatchStore.Contains
StoreContains(s, route, fingerprint) ==
  IF route \notin DOMAIN s THEN FALSE ELSE fingerprint \in s[route]

\* MatchStore.Size: len of a missing map entry is 0
StoreSize(s, route) ==
  IF route \in DOMAIN s THEN Cardinality(s[route]) ELSE 0

RECURSIVE SumSizes(_, _)
SumSizes(s, rs) ==
  IF rs = {} THEN 0
  ELSE LET r == CHOOSE x \in rs : TRUE
       IN  Cardinality(s[r]) + SumSizes(s, rs \ {r})

\* Clear that counts one per route instead of one per value
StoreClearCountRoutes(s) ==
  [ret |-> Cardinality(DOMAIN s), store |-> EmptyStore]

\* MatchStore.Clear: the returned count and the store after the call
StoreClear(s) ==
  [ret |-> SumSizes(s, DOMAIN s), store |-> EmptyStore]

RECURSIVE Perms(_)
\* every order in which a range over a Go map can visit the set S
Perms(S) ==
  IF S = {} THEN {<< >>}
  ELSE UNION {{<<x>> \o p : p \in Perms(S \ {x})} : x \in S}

EmptySnapshot == [r \in {} |-> << >>]

RECURSIVE SnapshotsOver(_, _)
SnapshotsOver(s, rs) ==
  IF rs = {} THEN {EmptySnapshot}
  ELSE LET r == CHOOSE x \in rs : TRUE
       IN  {[x \in DOMAIN f \cup {r} |-> IF x = r THEN p ELSE f[x]] :
              f \in SnapshotsOver(s, rs \ {r}), p \in Perms(s[r])}

\* MatchStore.Snapshot: the maps route -> value list the call can return (the
\* order of each list is the map's iteration order, which Go leaves open)
StoreSnapshots(s) == SnapshotsOver(s, DOMAIN s)

Range(list) == {list[i] : i \in 1..Len(list)}

\* Load that keeps only the first value of each list
StoreLoadFirstOnly(snapshot) ==
  [r \in DOMAIN snapshot |->
     IF snapshot[r] = << >> THEN {} ELSE {snapshot[r][1]}]

\* MatchStore.Load: the store after the call
StoreLoad(snapshot) == [r \in DOMAIN snapshot |-> Range(snapshot[r])]

(***************************************************************************)
(* Parsed JSON (encoding/json into `any`): a tagged pair.  Objects are     *)
(* functions from keys to values, arrays are sequences, numbers are        *)
(* float64 (the model uses small naturals).  Malformed stands for bytes    *)
(* that json.Unmarshal rejects.                                            *)
(***************************************************************************)
JStr(s) == <<"str", s>>
JNum(n) == <<"num", n>>
JBool(b) == <<"bool", b>>
JNull == <<"null", 0>>
JArr(a) == <<"arr", a>>
JObj(m) == <<"obj", m>>
Malformed == <<"bad", 0>>

NoFields == [k \in {} |-> JNull]

\* json.Unmarshal(payload, &body) with body of type any
UnmarshalAny(payload) ==
  IF payload[1] = "bad" THEN [err |-> TRUE, body |-> JNull]
  ELSE [err |-> FALSE, body |-> payload]

\* json.Unmarshal(payload, &body) with body of type map[string]any: an object
\* fills the map, null leaves it nil, anything else is an error
UnmarshalObject(payload) ==
  IF payload[1] = "obj" THEN [err |-> FALSE, body |-> payload[2]]
  ELSE IF payload[1] = "null" THEN [err |-> FALSE, body |-> NoFields]
  ELSE [err |-> TRUE, body |-> NoFields]

DigitSeq == <<"0", "1", "2", "3", "4", "5", "6", "7", "8", "9">>

RECURSIVE NatToStr(_)
\* %v of a float64 holding a natural below 1e21: its decimal digits
NatToStr(n) ==
  IF n < 10 THEN <<DigitSeq[n + 1]>>
  ELSE NatToStr(n \div 10) \o <<DigitSeq[(n % 10) + 1]>>

RECURSIVE SortStrings(_)
\* sort.Strings over a set of keys
SortStrings(S) ==
  IF S = {} THEN << >>
  ELSE LET m == CHOOSE x \in S : \A y \in S \ {x} : StrLess(x, y)
       IN  <<m>> \o SortStrings(S \ {m})

RECURSIVE JoinSpace(_)
JoinSpace(parts) ==
  IF parts = << >> THEN << >>
  ELSE IF Len(parts) = 1 THEN parts[1]
  ELSE parts[1] \o <<" ">> \o JoinSpace(Tail(parts))

RECURSIVE Sprint(_)
\* fmt.Sprintf("%v", val)
Sprint(val) ==
  CASE val[1] = "str" -> val[2]
    [] val[1] = "num" -> NatToStr(val[2])
    [] val[1] = "bool" -> IF val[2] THEN <<"t", "r", "u", "e">>
                                    ELSE <<"f", "a", "l", "s", "e">>
    [] val[1] = "null" -> <<"<", "n", "i", "l", ">">>
    [] val[1] = "arr" ->
         <<"[">> \o JoinSpace([i \in 1..Len(val[2]) |-> Sprint(val[2][i])]) \o <<"]">>
    [] val[1] = "obj" ->
         LET keys == SortStrings(DOMAIN val[2])
         IN  <<"m", "a", "p", "[">> \o
             JoinSpace([i \in 1..Len(keys) |->
                          keys[i] \o <<":">> \o Sprint(val[2][keys[i]])]) \o
             <<"]">>

RECURSIVE Concat(_)
Concat(lists) ==
  IF lists = << >> THEN << >> ELSE Head(lists) \o Concat(Tail(lists))

RECURSIVE flattenValuesArrayLeaf(_)
\* flattenValues that takes an array for a leaf
flattenValuesArrayLeaf(v) ==
  CASE v[1] = "obj" ->
         LET keys == SortStrings(DOMAIN v[2])
         IN  Concat([i \in 1..Len(keys) |-> flattenValuesArrayLeaf(v[2][keys[i]])])
    [] OTHER -> <<Sprint(v)>>

RECURSIVE flattenValues(_)
flattenValues(v) ==
  CASE v[1] = "obj" ->
         LET keys == SortStrings(DOMAIN v[2])
         IN  Concat([i \in 1..Len(keys) |-> flattenValues(v[2][keys[i]])])
    [] v[1] = "arr" ->
         Concat([i \in 1..Len(v[2]) |-> flattenValues(v[2][i])])
    [] OTHER -> <<Sprint(v)>>

(***************************************************************************)
(* Field extraction.                                                       *)
(***************************************************************************)
\* strings.IndexByte, counted from 1; 0 when c does not occur in s
IndexByte(s, c) ==
  IF \E i \in 1..Len(s) : s[i] = c
    THEN CHOOSE i \in 1..Len(s) : s[i] = c /\ \A j \in 1..(i - 1) : s[j] # c
    ELSE 0

RECURSIVE Split(_, _)
\* strings.Split(s, sep) for a one-byte separator
Split(s, sep) ==
  LET i == IndexByte(s, sep)
  IN  IF i = 0 THEN <<s>>
      ELSE <<SubSeq(s, 1, i - 1)>> \o Split(SubSeq(s, i + 1, Len(s)), sep)

\* strings.SplitN(s, sep, 2)
SplitN2(s, sep) ==
  LET i == IndexByte(s, sep)
  IN  IF i = 0 THEN <<s>> ELSE <<SubSeq(s, 1, i - 1), SubSeq(s, i + 1, Len(s))>>

LowerByte(c) ==
  CASE c = "E" -> "e" [] c = "N" -> "n" [] c = "V" -> "v" [] OTHER -> c

\* strings.ToLower
ToLower(s) == [i \in 1..Len(s) |-> LowerByte(s[i])]

\* lookupField: err is "" on success, else the kind of the error returned
lookupField(payload, field) ==
  LET parts == Split(field, ".")
  IN  CASE Len(parts) = 1 ->
             IF parts[1] \in DOMAIN payload
               THEN [err |-> "", val |-> payload[parts[1]]]
               ELSE [err |-> "not found", val |-> JNull]
        [] Len(parts) = 2 ->
             IF ~(parts[1] \in DOMAIN payload /\ payload[parts[1]][1] = "obj")
               THEN [err |-> "missing nested object", val |-> JNull]
               ELSE LET child == payload[parts[1]][2]
                    IN  IF parts[2] \in DOMAIN child
                          THEN [err |-> "", val |-> child[parts[2]]]
                          ELSE [err |-> "not found", val |-> JNull]
        [] OTHER -> [err |-> "depth unsupported", val |-> JNull]

\* extractMatchValues that takes every leaf of the payload, whatever the fields
extractMatchValuesAnyPath(payload, fields) ==
  [err |-> "", values |-> flattenValues(JObj(payload))]

RECURSIVE extractMatchValuesSkipMissing(_, _)
\* extractMatchValues that passes over a field it cannot look up
extractMatchValuesSkipMissing(payload, fields) ==
  IF fields = << >> THEN [err |-> "", values |-> << >>]
  ELSE LET r == lookupField(payload, Head(fields))
           rest == extractMatchValuesSkipMissing(payload, Tail(fields))
       IN  IF r.err # "" THEN rest
           ELSE [err |-> "", values |-> <<Sprint(r.val)>> \o rest.values]

RECURSIVE extractMatchValues(_, _)
extractMatchValues(payload, fields) ==
  IF fields = << >> THEN [err |-> "", values |-> << >>]
  ELSE LET r == lookupField(payload, Head(fields))
       IN  IF r.err # "" THEN [err |-> r.err, values |-> << >>]
           ELSE LET rest == extractMatchValues(payload, Tail(fields))
                IN  IF rest.err # "" THEN rest
                    ELSE [err |-> "", values |-> <<Sprint(r.val)>> \o rest.values]

(***************************************************************************)
(* Feeds.  Header maps are functions from header names to values; a nil    *)
(* map and an empty map are the empty function.                            *)
(***************************************************************************)
NoHeaders == [k \in {} |-> << >>]

RECURSIVE parseTopicHeaders(_)
\* parseTopicHeaders: [err, hdrs]; later entries overwrite earlier ones
parseTopicHeaders(raw) ==
  IF raw = << >> THEN [err |-> FALSE, hdrs |-> NoHeaders]
  ELSE LET init == parseTopicHeaders(SubSeq(raw, 1, Len(raw) - 1))
           parts == SplitN2(raw[Len(raw)], "=")
       IN  IF init.err \/ Len(parts) # 2 \/ parts[1] = << >>
             THEN [err |-> TRUE, hdrs |-> NoHeaders]
             ELSE [err |-> FALSE,
                   hdrs |-> [k \in DOMAIN init.hdrs \cup {ToLower(parts[1])} |->
                               IF k = ToLower(parts[1]) THEN parts[2] ELSE init.hdrs[k]]]

headersMatch(expected, actual) ==
  \A k \in DOMAIN expected :
     ToLower(k) \in DOMAIN actual /\ actual[ToLower(k)] = expected[k]

\* NewMatcher: config.ReferenceFeed records to feedMatcher records
NewMatcher(routeID, feeds) ==
  [routeID |-> routeID,
   feeds   |-> [i \in 1..Len(feeds) |->
                  [name         |-> feeds[i].name,
                   topic        |-> feeds[i].topic,
                   topicHeaders |-> parseTopicHeaders(feeds[i].topicHeaders).hdrs,
                   fields       |-> feeds[i].matchFields]]]

NoFeed == [name |-> "", topic |-> "", topicHeaders |-> NoHeaders, fields |-> << >>]

RECURSIVE feedForFrom(_, _, _)
\* the loop of Matcher.feedFor over the feeds not yet visited
feedForFrom(feeds, topic, headers) ==
  IF feeds = << >> THEN [ok |-> FALSE, feed |-> NoFeed]
  ELSE LET f == Head(feeds)
       IN  IF f.topic # topic THEN feedForFrom(Tail(feeds), topic, headers)
           ELSE IF ~headersMatch(f.topicHeaders, headers)
             THEN feedForFrom(Tail(feeds), topic, headers)
           ELSE [ok |-> TRUE, feed |-> f]

\* feedFor that prefers, among the feeds that match, the one requiring the
\* most headers
feedForMostSpecific(m, topic, headers) ==
  LET hits == {i \in 1..Len(m.feeds) :
                 m.feeds[i].topic = topic /\ headersMatch(m.feeds[i].topicHeaders, headers)}
      Weight(i) == Cardinality(DOMAIN m.feeds[i].topicHeaders)
  IN  IF hits = {} THEN [ok |-> FALSE, feed |-> NoFeed]
      ELSE [ok |-> TRUE,
            feed |-> m.feeds[CHOOSE i \in hits :
                               \A j \in hits : Weight(j) < Weight(i) \/ (Weight(j) = Weight(i) /\ i <= j)]]

\* Matcher.feedFor: [ok, feed]
feedFor(m, topic, headers) == feedForFrom(m.feeds, topic, headers)

(***************************************************************************)
(* Matcher operations as functions of the store they run against.          *)
(***************************************************************************)
RECURSIVE AddVariants(_, _, _)
\* the inner loop of ProcessReference / AddValues for one value: Add of each
\* variant (the visiting order does not change the outcome of the loop)
AddVariants(s, route, variants) ==
  IF variants = {} THEN [added |-> FALSE, store |-> s]
  ELSE LET variant == CHOOSE x \in variants : TRUE
           one == StoreAdd(s, route, variant)
           rest == AddVariants(one.store, route, variants \ {variant})
       IN  [added |-> one.ret \/ rest.added, store |-> rest.store]

RECURSIVE AddEachLastWins(_, _, _)
\* the loop with added = Add(...) in place of if Add(...) { added = true }
AddEachLastWins(s, route, vals) ==
  IF vals = << >> THEN [added |-> FALSE, store |-> s]
  ELSE LET one == AddVariants(s, route, yearVariants(Head(vals)))
           rest == AddEachLastWins(one.store, route, Tail(vals))
       IN  [added |-> IF Tail(vals) = << >> THEN one.added ELSE rest.added,
            store |-> rest.store]

RECURSIVE AddEach(_, _, _)
\* the outer loop of ProcessReference / AddValues
AddEach(s, route, vals) ==
  IF vals = << >> THEN [added |-> FALSE, store |-> s]
  ELSE LET one == AddVariants(s, route, yearVariants(Head(vals)))
           rest == AddEach(one.store, route, Tail(vals))
       IN  [added |-> one.added \/ rest.added, store |-> rest.store]

\* Matcher.ProcessReference: [added, feed, err, store]; err is "" on success
MatcherProcessReference(s, m, topic, headers, payload) ==
  LET f == feedFor(m, topic, headers)
      u == UnmarshalObject(payload)
      x == extractMatchValues(u.body, f.feed.fields)
      a == AddEach(s, m.routeID, x.values)
  IN  IF ~f.ok THEN [added |-> FALSE, feed |-> "", err |-> "no feed", store |-> s]
      ELSE IF u.err
        THEN [added |-> FALSE, feed |-> f.feed.name, err |-> "invalid payload", store |-> s]
      ELSE IF x.err # ""
        THEN [added |-> FALSE, feed |-> f.feed.name, err |-> x.err, store |-> s]
      ELSE [added |-> a.added, feed |-> f.feed.name, err |-> "", store |-> a.store]

\* Matcher.ShouldForward: [ret, err]
MatcherShouldForward(s, m, payload) ==
  LET u == UnmarshalAny(payload)
      vals == flattenValues(u.body)
  IN  IF u.err THEN [ret |-> FALSE, err |-> TRUE]
      ELSE [ret |-> \E i \in 1..Len(vals) :
                      \E variant \in yearVariants(vals[i]) :
                         StoreContains(s, m.routeID, variant),
            err |-> FALSE]

\* Matcher.AddValues: [added, store]
MatcherAddValues(s, m, vals) == AddEach(s, m.routeID, vals)

(***************************************************************************)
(* The configuration and the inputs the model runs on.                     *)
(***************************************************************************)
Y24x1 == <<"2", "4", "/", "1">>
Y2024x1 == <<"2", "0", "2", "4", "/", "1">>
Y24x2 == <<"2", "4", "/", "2">>
Y2024x2 == <<"2", "0", "2", "4", "/", "2">>
Plain == <<"x">>
Y202024x1 == <<"2", "0", "2", "0", "2", "4", "/", "1">>
Y4x1 == <<"4", "/", "1">>

KeyA == <<"a">>
KeyB == <<"b">>
KeyC == <<"c">>
KeyK == <<"k">>
KeyS == <<"s">>
FieldSB == <<"s", ".", "b">>

Topic1 == "ref-1"
Topic2 == "ref-2"

\* the reference feeds of each route, in configuration order
FeedConfig ==
  [r \in Routes |->
     IF r = RouteA
       THEN <<[name |-> "feed-a", topic |-> Topic1,
               topicHeaders |-> <<<<"E", "N", "=", "p">>>>, matchFields |-> <<KeyA>>],
              [name |-> "feed-b", topic |-> Topic1,
               topicHeaders |-> << >>, matchFields |-> <<FieldSB>>],
              [name |-> "feed-c", topic |-> Topic1,
               topicHeaders |-> <<<<"k", "=", "v">>>>, matchFields |-> <<KeyC>>]>>
       ELSE <<[name |-> "feed-d", topic |-> Topic2,
               topicHeaders |-> << >>, matchFields |-> <<KeyA, FieldSB>>]>>]

\* main: one Matcher per route, all on the one MatchStore
Matchers == [r \in Routes |-> NewMatcher(r, FeedConfig[r])]

Obj1(k, v) == JObj([x \in {k} |-> v])
Obj2(k1, v1, k2, v2) == JObj([x \in {k1, k2} |-> IF x = k1 THEN v1 ELSE v2])

\* fingerprints handed to MatchStore.Add directly
AddFingerprints == {Y24x1, Y2024x1, Y24x2, Plain}

\* raw values handed to Matcher.AddValues
RawValues == {Y24x1, Y2024x2, Plain}

\* values in the snapshots handed to MatchStore.Load
LoadValues == {Plain, Y2024x1}

SeqsUpTo(S, n) == UNION {[1..k -> S] : k \in 0..n}

LoadSnapshots == UNION {[D -> SeqsUpTo(LoadValues, MaxLoadLen)] : D \in SUBSET Routes}

\* headers of reference messages
HeaderSets ==
  {NoHeaders,
   [k \in {<<"e", "n">>} |-> <<"p">>],
   [k \in {<<"e", "n">>} |-> <<"q">>],
   [k \in {<<"E", "N">>} |-> <<"p">>],
   [k \in {<<"k">>} |-> <<"v">>]}

\* payloads of reference messages
ReferencePayloads ==
  {JObj([x \in {KeyA, KeyS, KeyC} |->
           IF x = KeyA THEN JStr(Y24x1)
           ELSE IF x = KeyS THEN Obj1(KeyB, JStr(Plain))
           ELSE JStr(Y24x2)]),
   Obj1(KeyA, JStr(Y2024x1)),
   Obj2(KeyA, JStr(Plain), KeyS, Obj1(KeyB, JStr(Y24x2))),
   Obj2(KeyA, JStr(Y24x1), KeyS, JStr(Plain)),
   JNull,
   JArr(<<JStr(Plain)>>),
   Malformed}

\* the strings put, one at a time, under a nested key of a source payload
LeafStrings == {Y24x1, Y2024x1, Y24x2, Y2024x2, Plain, Y202024x1, Y4x1}

\* payloads of source messages
SourcePayloads ==
  {Obj1(KeyK, JArr(<<JNum(24), Obj1(KeyA, JStr(v))>>)) : v \in LeafStrings} \cup
  {Obj2(KeyA, JStr(Y24x2), KeyS, Obj1(KeyB, JStr(Y2024x1))),
   JStr(Plain),
   JArr(<<JBool(TRUE), JNull, JNum(2024)>>),
   JObj(NoFields),
   JArr(<< >>),
   Malformed}

(***************************************************************************)
(* State.                                                                  *)
(***************************************************************************)
VARIABLES
  values,   \* MatchStore.values
  last,     \* the call just made: [op, route, arg, ret, pre], pre the store it ran on
  snap,     \* the Snapshot result a caller keeps, to Load it back later
  taken,    \* the store as it was when snap was taken
  mu,       \* MatchStore.mu: [writer, readers], the tasks holding the lock
  pc,       \* per task: where it is in its store call
  call,     \* per task: the call it is in, [op, route, arg, todo, out, ret]
  whole,    \* the store as the last writer to unlock left it
  seen,     \* per task: the stores left by writers since its call began
  cut,      \* whether the last Clear fell between the Adds of one matcher call
  writers,  \* WriterPool.writers: topic -> the writer cached for it
  pmu,      \* WriterPool.mu: the task holding the lock, "" when free
  made,     \* the topics of the writers constructed so far, in order
  topics,   \* the topics that exist at the bridge cluster
  failed,   \* the topics for which an ensure step has failed
  closed,   \* the Close calls made on writers, in order: [topic, writer, ok]
  loop,     \* per route loop: [at, n, msg, store, writer, prev, misses]
  writes,   \* the WriteMessages calls made, in order
  main,     \* the main goroutine: [pc, i, loaded]
  ctx,      \* the context of signal.NotifyContext: [done, store]
  http,     \* the goroutine of the administrative listener
  flusher,  \* the goroutine of startSnapshotWriter
  disk,     \* the snapshot file: [path, file, content]
  cfg,      \* the routes of the configuration, in order
  built     \* main's matchers: route identifier -> index of the route it is of

vars == <<values, last, snap, taken, mu, pc, call, whole, seen, cut,
          writers, pmu, made, topics, failed, closed, loop, writes,
          main, ctx, http, flusher, disk, cfg, built>>

\* the writer pool and the bridge cluster
pool == <<writers, pmu, made, topics, failed, closed>>

\* the loops of the routes and what they have written
pipe == <<loop, writes>>

\* the process around the loops: main, its context, the listener, the
\* snapshot writer, the snapshot file and the configuration
life == <<main, ctx, http, flusher, disk, cfg, built>>

\* the state beyond the match store
beyond == <<pool, pipe, life>>

\* the state of the tasks that call the store concurrently
tasks == <<mu, pc, call, whole, seen, cut>>

\* what a call made on its own, from one caller, leaves alone
aside == <<snap, taken, tasks, beyond>>

\* no call outstanding
NoCall == [op |-> "none", route |-> "", arg |-> 0, ret |-> 0, pre |-> EmptyStore]

Done(op, route, arg, ret) ==
  [op |-> op, route |-> route, arg |-> arg, ret |-> ret, pre |-> values]

Readers == {"reader"}
Writers == {"loader"}
Getters == {"streamer-1", "streamer-2"}
Closers == {"main"}
Ingesters == {"collector", "injector"}
Clearers == {"resetter"}
Tasks == Readers \cup Writers \cup Getters \cup Closers \cup Ingesters \cup Clearers

Streamers == Getters
Collectors == {"collector-1", "collector-2"}
Loops == Streamers \cup Collectors

NoWriters == [t \in {} |-> 0]

\* a loop before its first read
NoMessage == [key |-> "", value |-> <<"null", 0>>, headers |-> << >>, time |-> 0,
              topic |-> "", offset |-> 0]
Fresh == [at |-> "read", n |-> 0, msg |-> NoMessage, store |-> EmptyStore,
          writer |-> 0, prev |-> "", misses |-> {}]

NoLock == [writer |-> "", readers |-> {}]
Idle == [op |-> "none", route |-> "", arg |-> 0, todo |-> {}, out |-> 0, ret |-> 0]

(***************************************************************************)
(* The configuration main starts from, and the snapshot file.              *)
(***************************************************************************)
\* a route of the configuration; sourceTopics and referenceFeeds are the
\* lengths of the lists
ConfigRoute(name, destinationTopic, sourceTopics, referenceFeeds) ==
  [name |-> name, destinationTopic |-> destinationTopic,
   sourceTopics |-> sourceTopics, referenceFeeds |-> referenceFeeds]

\* Route.DisplayName
DisplayName(r) == IF r.name # << >> THEN r.name ELSE r.destinationTopic

\* slug: strings.NewReplacer(" ", "-", "/", "-", "\\", "-", ".", "-") on the
\* lower-cased string
slug(in) ==
  [i \in 1..Len(in) |->
     IF ToLower(in)[i] \in {" ", "/", "\\", "."} THEN "-" ELSE ToLower(in)[i]]

\* routeKey
routeKey(route) == slug(DisplayName(route))

\* Route.validate: "" for nil, else the error
RouteValidate(r) ==
  IF r.sourceTopics = 0 THEN "sourceTopics cannot be empty"
  ELSE IF r.destinationTopic = << >> THEN "destinationTopic is required"
  ELSE IF r.referenceFeeds = 0 THEN "referenceFeeds cannot be empty"
  ELSE ""

\* Config.Validate on the routes (the clusters, the client id and the group
\* ids are in place): "" for nil, else the first error
ConfigValidate(routes) ==
  IF Len(routes) = 0 THEN "at least one route must be defined"
  ELSE IF \E i \in 1..Len(routes) : RouteValidate(routes[i]) # ""
    THEN RouteValidate(routes[CHOOSE i \in 1..Len(routes) :
                                 /\ RouteValidate(routes[i]) # ""
                                 /\ \A j \in 1..(i - 1) : RouteValidate(routes[j]) = ""])
  ELSE ""

NameRouteA == <<"r", "o", "u", "t", "e", "-", "a">>
NameRouteB == <<"r", "o", "u", "t", "e", "-", "b">>
TopicDst1 == <<"t", "-", "1">>
TopicDst2 == <<"t", "-", "2">>

\* the two routes the loops of the model run for
DefaultRoutes ==
  <<ConfigRoute(NameRouteA, TopicDst1, 1, 3), ConfigRoute(NameRouteB, TopicDst2, 1, 1)>>

NoMatchers == [k \in {} |-> 0]

\* main: for _, route := range cfg.Routes { matchers[routeKey(route)] = ... },
\* after the first n routes
RECURSIVE BuiltFrom(_, _)
BuiltFrom(routes, n) ==
  IF n = 0 THEN NoMatchers
  ELSE LET m == BuiltFrom(routes, n - 1)
           id == routeKey(routes[n])
       IN  [k \in DOMAIN m \cup {id} |-> IF k = id THEN n ELSE m[k]]

\* the snapshot file: whether a path is configured, the state of the file
\* and the values by route in it
NoDisk == [path |-> FALSE, file |-> "none", content |-> EmptyStore]

\* a store as a snapshot, each list in one of the orders it can have
Listing(s) ==
  [r \in DOMAIN s |-> CHOOSE list \in Perms(s[r]) : TRUE]

\* store.Load(path): [err, snapshot]; a missing or unreadable file is an error
FileLoad(d) ==
  IF d.file = "ok" THEN [err |-> FALSE, snapshot |-> Listing(d.content)]
  ELSE [err |-> TRUE, snapshot |-> EmptySnapshot]

\* store.Save(path, snapshot): the file after it, written or not
FileSave(d, snapshot, ok) ==
  IF ok THEN [d EXCEPT !.file = "ok", !.content = StoreLoad(snapshot)] ELSE d

\* main while the loops run
Running == [pc |-> "wait", i |-> 0, loaded |-> "none"]

\* main at its first statement
Starting == [pc |-> "config", i |-> 0, loaded |-> "none"]

\* the context before the signal
Live == [done |-> FALSE, store |-> EmptyStore]

Init ==
  /\ values = EmptyStore
  /\ last = NoCall
  /\ snap = EmptySnapshot
  /\ taken = EmptyStore
  /\ mu = NoLock
  /\ pc = [p \in Tasks |-> "idle"]
  /\ call = [p \in Tasks |-> Idle]
  /\ whole = EmptyStore
  /\ writers = NoWriters
  /\ pmu = ""
  /\ made = << >>
  /\ topics = {}
  /\ failed = {}
  /\ closed = << >>
  /\ loop = [p \in Loops |-> Fresh]
  /\ writes = << >>
  /\ seen = [p \in Tasks |-> {}]
  /\ cut = FALSE
  /\ main = Running
  /\ ctx = Live
  /\ http = "serving"
  /\ flusher = "off"
  /\ disk = NoDisk
  /\ cfg = DefaultRoutes
  /\ built = BuiltFrom(DefaultRoutes, Len(DefaultRoutes))

Add(route, fingerprint) ==
  LET r == StoreAdd(values, route, fingerprint)
  IN  /\ last.op = "none"
      /\ UNCHANGED aside
      /\ values' = r.store
      /\ last' = Done("Add", route, fingerprint, r.ret)

Contains(route, fingerprint) ==
  /\ last.op = "none"
  /\ UNCHANGED aside
  /\ UNCHANGED values
  /\ last' = Done("Contains", route, fingerprint, StoreContains(values, route, fingerprint))

\* Size that looks the route up the way Add does, creating its entry
SizeCreatingRoute(route) ==
  /\ last.op = "none"
  /\ UNCHANGED aside
  /\ values' = [r \in DOMAIN values \cup {route} |->
                  IF r \in DOMAIN values THEN values[r] ELSE {}]
  /\ last' = Done("Size", route, 0, StoreSize(values, route))

Size(route) ==
  /\ last.op = "none"
  /\ UNCHANGED aside
  /\ UNCHANGED values
  /\ last' = Done("Size", route, 0, StoreSize(values, route))

Clear ==
  LET r == StoreClear(values)
  IN  /\ last.op = "none"
      /\ UNCHANGED aside
      /\ values' = r.store
      /\ last' = Done("Clear", "", 0, r.ret)

Snapshot ==
  /\ last.op = "none"
  /\ UNCHANGED aside
  /\ UNCHANGED values
  /\ \E out \in StoreSnapshots(values) : last' = Done("Snapshot", "", 0, out)

Load(snapshot) ==
  /\ last.op = "none"
  /\ UNCHANGED aside
  /\ values' = StoreLoad(snapshot)
  /\ last' = Done("Load", "", snapshot, 0)

ProcessReference(route, topic, headers, payload) ==
  LET r == MatcherProcessReference(values, Matchers[route], topic, headers, payload)
  IN  /\ last.op = "none"
      /\ UNCHANGED aside
      /\ values' = r.store
      /\ last' = Done("ProcessReference", route,
                      [topic |-> topic, headers |-> headers, payload |-> payload],
                      [added |-> r.added, feed |-> r.feed, err |-> r.err])

ShouldForward(route, payload) ==
  /\ last.op = "none"
  /\ UNCHANGED aside
  /\ UNCHANGED values
  /\ last' = Done("ShouldForward", route, payload,
                  MatcherShouldForward(values, Matchers[route], payload))

MatcherSize(route) ==
  /\ last.op = "none"
  /\ UNCHANGED aside
  /\ UNCHANGED values
  /\ last' = Done("MatcherSize", route, 0, StoreSize(values, Matchers[route].routeID))

AddValues(route, vals) ==
  LET r == MatcherAddValues(values, Matchers[route], vals)
  IN  /\ last.op = "none"
      /\ UNCHANGED aside
      /\ values' = r.store
      /\ last' = Done("AddValues", route, vals, r.added)

\* the caller takes the result; the next call can begin
Return ==
  /\ last.op # "none"
  /\ UNCHANGED aside
  /\ last' = NoCall
  /\ UNCHANGED values

Next ==
  \/ \E route \in Routes, fingerprint \in AddFingerprints : Add(route, fingerprint)
  \/ \E route \in Routes, fingerprint \in AddFingerprints : Contains(route, fingerprint)
  \/ \E route \in Routes : Size(route)
  \/ Clear
  \/ Snapshot
  \/ \E snapshot \in LoadSnapshots : Load(snapshot)
  \/ \E route \in Routes, topic \in {Topic1, Topic2}, headers \in HeaderSets,
        payload \in ReferencePayloads : ProcessReference(route, topic, headers, payload)
  \/ \E route \in Routes, payload \in SourcePayloads : ShouldForward(route, payload)
  \/ \E route \in Routes : MatcherSize(route)
  \/ \E route \in Routes, vals \in SeqsUpTo(RawValues, MaxValuesLen) : AddValues(route, vals)
  \/ Return

Spec == Init /\ [][Next]_vars

(***************************************************************************)
(* Snapshot and Load back: a caller keeps what Snapshot returned and hands *)
(* it to Load later, whatever the store has become in between (main's      *)
(* loadSnapshot at the next start).                                        *)
(***************************************************************************)
\* fingerprints added between a Snapshot and the Load of it
SnapFingerprints == {Plain, Y24x1}

\* the caller keeps the map Snapshot returned
KeepSnapshot ==
  /\ last.op = "Snapshot"
  /\ snap' = last.ret
  /\ taken' = last.pre
  /\ last' = NoCall
  /\ UNCHANGED <<values, tasks, beyond>>

\* loadSnapshot: store.Load(snap)
LoadKept ==
  /\ last.op = "none"
  /\ values' = StoreLoad(snap)
  /\ last' = Done("Load", "", snap, 0)
  /\ UNCHANGED aside

NextSnap ==
  \/ \E route \in Routes, fingerprint \in SnapFingerprints : Add(route, fingerprint)
  \/ Clear
  \/ Snapshot
  \/ KeepSnapshot
  \/ LoadKept
  \/ Return

SpecSnap == Init /\ [][NextSnap]_vars

(***************************************************************************)
(* The store under concurrent callers, one step per statement.  Every      *)
(* method takes s.mu first (Lock for Add, Clear and Load, RLock for        *)
(* Contains, Size and Snapshot) and releases it on return.                 *)
(***************************************************************************)
\* the snapshots the loader hands to Load
TaskSnapshots ==
  {EmptySnapshot,
   [r \in {RouteA} |-> <<Y24x1, Plain>>],
   [r \in Routes |-> IF r = RouteA THEN <<Plain>> ELSE <<Y24x1>>]}

\* the fingerprints readers ask for
TaskFingerprints == {Plain, Y24x1}

\* a task calls Contains, Size or Snapshot
CallRead(p, op, route, fingerprint) ==
  /\ pc[p] = "idle"
  /\ pc' = [pc EXCEPT ![p] = "RLock"]
  /\ call' = [call EXCEPT ![p] = [Idle EXCEPT !.op = op, !.route = route,
                                              !.arg = fingerprint]]
  /\ seen' = [seen EXCEPT ![p] = {whole}]
  /\ UNCHANGED <<values, last, snap, taken, beyond, cut, mu, whole>>

\* s.mu.RLock() that does not wait for the writer
RLockNoWait(p) ==
  /\ pc[p] = "RLock"
  /\ mu' = [mu EXCEPT !.readers = @ \cup {p}]
  /\ pc' = [pc EXCEPT ![p] = call[p].op]
  /\ UNCHANGED <<values, last, snap, taken, beyond, cut, call, whole, seen>>

\* s.mu.RLock(): waits while a writer holds the lock
RLock(p) ==
  /\ pc[p] = "RLock"
  /\ mu.writer = ""
  /\ mu' = [mu EXCEPT !.readers = @ \cup {p}]
  /\ pc' = [pc EXCEPT ![p] = call[p].op]
  /\ UNCHANGED <<values, last, snap, taken, beyond, cut, call, whole, seen>>

\* the body of Contains
ContainsRead(p) ==
  /\ pc[p] = "Contains"
  /\ call' = [call EXCEPT ![p].ret = StoreContains(values, call[p].route, call[p].arg)]
  /\ pc' = [pc EXCEPT ![p] = "RUnlock"]
  /\ UNCHANGED <<values, last, snap, taken, beyond, cut, mu, whole, seen>>

\* the body of Size
SizeRead(p) ==
  /\ pc[p] = "Size"
  /\ call' = [call EXCEPT ![p].ret = StoreSize(values, call[p].route)]
  /\ pc' = [pc EXCEPT ![p] = "RUnlock"]
  /\ UNCHANGED <<values, last, snap, taken, beyond, cut, mu, whole, seen>>

\* Snapshot: out := make(...); for route, vals := range s.values
SnapshotRange(p) ==
  /\ pc[p] = "Snapshot"
  /\ call' = [call EXCEPT ![p].todo = DOMAIN values, ![p].out = EmptySnapshot]
  /\ pc' = [pc EXCEPT ![p] = "SnapshotCopy"]
  /\ UNCHANGED <<values, last, snap, taken, beyond, cut, mu, whole, seen>>

\* Snapshot: one round of the loop, out[route] = list, or its end
SnapshotCopy(p) ==
  /\ pc[p] = "SnapshotCopy"
  /\ IF call[p].todo = {}
       THEN /\ call' = [call EXCEPT ![p].ret = call[p].out]
            /\ pc' = [pc EXCEPT ![p] = "RUnlock"]
       ELSE \E route \in call[p].todo :
            \E list \in Perms(IF route \in DOMAIN values THEN values[route] ELSE {}) :
              /\ call' = [call EXCEPT
                            ![p].todo = @ \ {route},
                            ![p].out = [r \in DOMAIN @ \cup {route} |->
                                          IF r = route THEN list ELSE @[r]]]
              /\ pc' = [pc EXCEPT ![p] = "SnapshotCopy"]
  /\ UNCHANGED <<values, last, snap, taken, beyond, cut, mu, whole, seen>>

\* the deferred s.mu.RUnlock() and the return
RUnlock(p) ==
  /\ pc[p] = "RUnlock"
  /\ mu' = [mu EXCEPT !.readers = @ \ {p}]
  /\ pc' = [pc EXCEPT ![p] = "returned"]
  /\ UNCHANGED <<values, last, snap, taken, beyond, cut, call, whole, seen>>

\* the caller takes the result
TaskReturn(p) ==
  /\ pc[p] = "returned"
  /\ pc' = [pc EXCEPT ![p] = "idle"]
  /\ call' = [call EXCEPT ![p] = Idle]
  /\ seen' = [seen EXCEPT ![p] = {}]
  /\ UNCHANGED <<values, last, snap, taken, beyond, cut, mu, whole>>

\* a task calls Load
CallLoad(p, snapshot) ==
  /\ pc[p] = "idle"
  /\ pc' = [pc EXCEPT ![p] = "Lock"]
  /\ call' = [call EXCEPT ![p] = [Idle EXCEPT !.op = "Load", !.arg = snapshot]]
  /\ UNCHANGED <<values, last, snap, taken, beyond, cut, mu, whole, seen>>

\* s.mu.Lock() that does not wait for the readers
LockNoWait(p) ==
  /\ pc[p] = "Lock"
  /\ mu.writer = ""
  /\ mu' = [mu EXCEPT !.writer = p]
  /\ pc' = [pc EXCEPT ![p] = call[p].op]
  /\ UNCHANGED <<values, last, snap, taken, beyond, cut, call, whole, seen>>

\* s.mu.Lock() that takes the lock whoever holds it
LockNoExclusion(p) ==
  /\ pc[p] = "Lock"
  /\ mu' = [mu EXCEPT !.writer = p]
  /\ pc' = [pc EXCEPT ![p] = call[p].op]
  /\ UNCHANGED <<values, last, snap, taken, beyond, cut, call, whole, seen>>

\* s.mu.Lock(): waits until no writer and no reader holds the lock
Lock(p) ==
  /\ pc[p] = "Lock"
  /\ mu.writer = "" /\ mu.readers = {}
  /\ mu' = [mu EXCEPT !.writer = p]
  /\ pc' = [pc EXCEPT ![p] = call[p].op]
  /\ UNCHANGED <<values, last, snap, taken, beyond, cut, call, whole, seen>>

\* Load: s.values = make(...); for route, vals := range snapshot
LoadReset(p) ==
  /\ pc[p] = "Load"
  /\ values' = EmptyStore
  /\ call' = [call EXCEPT ![p].todo = DOMAIN call[p].arg]
  /\ pc' = [pc EXCEPT ![p] = "LoadRoute"]
  /\ UNCHANGED <<last, snap, taken, beyond, cut, mu, whole, seen>>

\* Load: one round of the loop, s.values[route] = routeMap, or its end
LoadRoute(p) ==
  /\ pc[p] = "LoadRoute"
  /\ IF call[p].todo = {}
       THEN /\ pc' = [pc EXCEPT ![p] = "Unlock"]
            /\ UNCHANGED <<values, call>>
       ELSE \E route \in call[p].todo :
              /\ values' = [r \in DOMAIN values \cup {route} |->
                              IF r = route THEN Range(call[p].arg[route]) ELSE values[r]]
              /\ call' = [call EXCEPT ![p].todo = @ \ {route}]
              /\ pc' = [pc EXCEPT ![p] = "LoadRoute"]
  /\ UNCHANGED <<last, snap, taken, beyond, cut, mu, whole, seen>>

\* the deferred s.mu.Unlock() and the return: the store is whole again, and
\* every reader in a call may now come to see it
Unlock(p) ==
  /\ pc[p] = "Unlock"
  /\ mu' = [mu EXCEPT !.writer = ""]
  /\ pc' = [pc EXCEPT ![p] = "idle"]
  /\ call' = [call EXCEPT ![p] = Idle]
  /\ whole' = values
  /\ seen' = [q \in Tasks |-> IF pc[q] \in {"idle", "returned"} THEN seen[q]
                              ELSE seen[q] \cup {values}]
  /\ UNCHANGED <<values, last, snap, taken, beyond, cut>>

NextTasks ==
  \/ \E p \in Readers, route \in Routes, fingerprint \in TaskFingerprints :
        CallRead(p, "Contains", route, fingerprint)
  \/ \E p \in Readers, route \in Routes : CallRead(p, "Size", route, 0)
  \/ \E p \in Readers : CallRead(p, "Snapshot", "", 0)
  \/ \E p \in Readers : RLock(p)
  \/ \E p \in Readers : ContainsRead(p)
  \/ \E p \in Readers : SizeRead(p)
  \/ \E p \in Readers : SnapshotRange(p)
  \/ \E p \in Readers : SnapshotCopy(p)
  \/ \E p \in Readers : RUnlock(p)
  \/ \E p \in Readers : TaskReturn(p)
  \/ \E p \in Writers, snapshot \in TaskSnapshots : CallLoad(p, snapshot)
  \/ \E p \in Writers : Lock(p)
  \/ \E p \in Writers : LoadReset(p)
  \/ \E p \in Writers : LoadRoute(p)
  \/ \E p \in Writers : Unlock(p)

SpecTasks == Init /\ [][NextTasks]_vars

(***************************************************************************)
(* Notions the properties are stated in.                                   *)
(***************************************************************************)
\* the values a route holds in store s
Held(s, route) == IF route \in DOMAIN s THEN s[route] ELSE {}

\* every (route, value) pair in store s
Pairs(s) ==
  {pr \in (DOMAIN s) \X (UNION {s[x] : x \in DOMAIN s}) : pr[2] \in s[pr[1]]}

\* every string the model handles
AllStrings == AddFingerprints \cup RawValues \cup LoadValues \cup LeafStrings

\* s begins with two ASCII digits and a slash
TwoDigitYear(s) == Len(s) >= 3 /\ s[1] \in Digits /\ s[2] \in Digits /\ s[3] = "/"

\* v and w are the same value, or one is the other with the century "20" in front
SameUpToCentury(v, w) ==
  \/ v = w
  \/ TwoDigitYear(w) /\ v = <<"2", "0">> \o w
  \/ TwoDigitYear(v) /\ w = <<"2", "0">> \o v

RECURSIVE LeavesOf(_)
\* the scalars found anywhere in a JSON value, as text
LeavesOf(j) ==
  CASE j[1] = "obj" -> UNION {LeavesOf(j[2][k]) : k \in DOMAIN j[2]}
    [] j[1] = "arr" -> UNION {LeavesOf(j[2][i]) : i \in 1..Len(j[2])}
    [] OTHER -> {Sprint(j)}

\* the field paths configured for each feed, as key sequences
ConfiguredPaths(feed) ==
  CASE feed = "feed-a" -> {<<KeyA>>}
    [] feed = "feed-b" -> {<<KeyS, KeyB>>}
    [] feed = "feed-c" -> {<<KeyC>>}
    [] feed = "feed-d" -> {<<KeyA>>, <<KeyS, KeyB>>}

\* whether a JSON object has a value at a path of one or two keys
HasValueAt(j, path) ==
  /\ j[1] = "obj" /\ path[1] \in DOMAIN j[2]
  /\ Len(path) = 2 => (j[2][path[1]][1] = "obj" /\ path[2] \in DOMAIN j[2][path[1]][2])

\* the value of a JSON object at a path of one or two keys
ValueAt(j, path) ==
  IF Len(path) = 1 THEN j[2][path[1]] ELSE j[2][path[1]][2][path[2]]

\* the values a successful ProcessReference call is to cache
SelectedValues(c) ==
  UNION {yearVariants(Sprint(ValueAt(c.arg.payload, path))) :
           path \in {q \in ConfiguredPaths(c.ret.feed) : HasValueAt(c.arg.payload, q)}}

\* the values an AddValues call is to cache
Expanded(vals) == UNION {yearVariants(vals[i]) : i \in 1..Len(vals)}

Ingested == last.op = "AddValues" \/ (last.op = "ProcessReference" /\ last.ret.err = "")

IngestedValues == IF last.op = "AddValues" THEN Expanded(last.arg) ELSE SelectedValues(last)

IngestAdded == IF last.op = "AddValues" THEN last.ret ELSE last.ret.added

\* the same call made once more, on the store as it is now
IngestAgain ==
  IF last.op = "AddValues"
    THEN MatcherAddValues(values, Matchers[last.route], last.arg)
    ELSE MatcherProcessReference(values, Matchers[last.route], last.arg.topic,
                                 last.arg.headers, last.arg.payload)

ReadOps == {"Contains", "Size", "Snapshot", "ShouldForward", "MatcherSize"}

(***************************************************************************)
(* Properties.                                                             *)
(***************************************************************************)
\* C1: cross-route isolation. A value comes to be held by route B only through
\* an Add, AddValues or ProcessReference under B or a Load that lists it under B,
\* and an insertion under route A changes neither what another route B
\* contains nor what B's ShouldForward answers.
CrossRouteIsolation ==
  last.op # "none" =>
    /\ \A B \in Routes : \A v \in Held(values, B) \ Held(last.pre, B) :
         \/ last.op = "Add" /\ last.route = B /\ last.arg = v
         \/ last.op = "AddValues" /\ last.route = B /\ v \in Expanded(last.arg)
         \/ last.op = "ProcessReference" /\ last.route = B /\ v \in SelectedValues(last)
         \/ last.op = "Load" /\ B \in DOMAIN last.arg /\ v \in Range(last.arg[B])
    /\ last.op \in {"Add", "AddValues", "ProcessReference"} =>
         \A B \in Routes \ {last.route} :
            /\ \A v \in AllStrings :
                 StoreContains(values, B, v) = StoreContains(last.pre, B, v)
            /\ \A payload \in SourcePayloads :
                 MatcherShouldForward(values, Matchers[B], payload) =
                 MatcherShouldForward(last.pre, Matchers[B], payload)

CrossRouteWitness ==
  /\ last.op = "Add" /\ last.route = RouteA /\ last.ret
  /\ StoreContains(values, RouteA, last.arg)
  /\ Held(values, RouteB) # {}
  /\ ~StoreContains(values, RouteB, last.arg)

\* C2: Add returns true exactly when the value was not in the route's set
\* before the call; then the route's size grows by one, otherwise the store is
\* unchanged; a second Add of the same value returns false and leaves the size.
AddIdempotent ==
  last.op = "Add" =>
    /\ last.ret = ~StoreContains(last.pre, last.route, last.arg)
    /\ last.ret => StoreSize(values, last.route) = StoreSize(last.pre, last.route) + 1
    /\ ~last.ret => values = last.pre
    /\ LET again == StoreAdd(values, last.route, last.arg)
       IN  /\ ~again.ret
           /\ StoreSize(again.store, last.route) = StoreSize(values, last.route)

AddIdempotentWitness ==
  /\ last.op = "Add" /\ ~last.ret
  /\ StoreSize(values, last.route) = 2

\* C3: Clear returns the number of values held over all routes before the
\* call and leaves every route with size 0 and containing nothing; on a store
\* holding no value it returns 0.
ClearCounts ==
  last.op = "Clear" =>
    /\ last.ret = Cardinality(Pairs(last.pre))
    /\ \A r \in Routes :
         /\ StoreSize(values, r) = 0
         /\ \A v \in AllStrings : ~StoreContains(values, r, v)
    /\ (\A r \in Routes : Held(last.pre, r) = {}) => last.ret = 0

ClearCountsWitness ==
  /\ last.op = "Clear" /\ last.ret = 3
  /\ Cardinality(Held(last.pre, RouteA)) = 2
  /\ Cardinality(Held(last.pre, RouteB)) = 1

\* C6: Contains, Size, Snapshot, Matcher.ShouldForward and Matcher.Size leave
\* the store as it was: no value and no route entry is added or removed.
ReadOnlyOps ==
  last.op \in ReadOps => values = last.pre

ReadOnlyWitness ==
  /\ last.op = "Size"
  /\ last.route \notin DOMAIN values
  /\ values # EmptyStore

\* C7: with the variants of one reference value w cached for the route and
\* nothing else, ShouldForward answers true exactly when some leaf of the
\* payload is w, or w with "20" in front (w starting NN/), or w is that leaf
\* with "20" in front (the leaf starting NN/).
YearVariantMatching ==
  (last.op = "ShouldForward" /\ ~last.ret.err) =>
    \A w \in Held(last.pre, last.route) :
       Held(last.pre, last.route) = yearVariants(w) =>
         (last.ret.ret <=> \E v \in LeavesOf(last.arg) : SameUpToCentury(v, w))

YearVariantWitness ==
  /\ last.op = "ShouldForward" /\ last.ret.ret
  /\ Held(last.pre, last.route) = {Y24x1, Y2024x1}
  /\ Y2024x1 \in LeavesOf(last.arg)
  /\ Y24x1 \notin LeavesOf(last.arg)

\* C8: ShouldForward on a parseable payload answers true exactly when some
\* leaf anywhere in the payload has a year-variant in the route's set.
ForwardIffSomeLeaf ==
  (last.op = "ShouldForward" /\ ~last.ret.err) =>
    (last.ret.ret <=>
       \E v \in LeavesOf(last.arg) :
          \E x \in yearVariants(v) : x \in Held(last.pre, last.route))

ForwardIffSomeLeafWitness ==
  /\ last.op = "ShouldForward" /\ last.ret.ret
  /\ last.arg[1] = "obj" /\ KeyK \in DOMAIN last.arg[2]
  /\ last.arg[2][KeyK][1] = "arr"

\* C9: a successful ProcessReference adds to the route's set the year-variants
\* of the values at the selected feed's field paths and nothing else; a value
\* found elsewhere in the reference payload does not get a source payload
\* forwarded.
FieldScopedIngestion ==
  (last.op = "ProcessReference" /\ last.ret.err = "") =>
    /\ Held(values, last.route) = Held(last.pre, last.route) \cup SelectedValues(last)
    /\ \A v \in LeavesOf(last.arg.payload) :
         (yearVariants(v) \cap (Held(last.pre, last.route) \cup SelectedValues(last)) = {})
           => ~MatcherShouldForward(values, Matchers[last.route],
                                    Obj1(KeyK, JStr(v))).ret

FieldScopedWitness ==
  /\ last.op = "ProcessReference" /\ last.ret.err = "" /\ last.ret.added
  /\ last.ret.feed = "feed-a"
  /\ Held(values, last.route) = {Y24x1, Y2024x1}
  /\ Plain \in LeavesOf(last.arg.payload)
  /\ Y24x2 \in LeavesOf(last.arg.payload)

\* C10: ProcessReference and AddValues return added = true exactly when one
\* of the variant-expanded values was not yet in the route's set; with none
\* new the store is unchanged, and ingesting the same input again returns
\* false and changes nothing.
AddedIffNew ==
  Ingested =>
    /\ IngestAdded <=> \E x \in IngestedValues : x \notin Held(last.pre, last.route)
    /\ ~IngestAdded => values = last.pre
    /\ ~IngestAgain.added /\ IngestAgain.store = values

AddedIffNewWitness ==
  /\ last.op = "AddValues" /\ last.ret
  /\ Len(last.arg) = 2
  /\ last.arg[2] \in Held(last.pre, last.route)
  /\ last.arg[1] \notin Held(last.pre, last.route)

\* C4: after Load of what Snapshot returned for a store S, the store answers
\* Contains and Size as S did, for every route and value, whatever it held
\* before the Load.
SnapshotRoundTrip ==
  last.op = "Load" =>
    \A r \in Routes :
       /\ StoreSize(values, r) = StoreSize(taken, r)
       /\ \A v \in AllStrings : StoreContains(values, r, v) = StoreContains(taken, r, v)

SnapshotRoundTripWitness ==
  /\ last.op = "Load"
  /\ Held(taken, RouteA) = {Plain, Y24x1}
  /\ Held(taken, RouteB) = {Plain}
  /\ Held(last.pre, RouteA) = {}
  /\ Held(last.pre, RouteB) = {Y24x1}
  /\ snap[RouteA] = <<Y24x1, Plain>>

\* what a finished read returned is what store c answers
Answers(c, s) ==
  CASE c.op = "Contains" -> c.ret = StoreContains(s, c.route, c.arg)
    [] c.op = "Size" -> c.ret = StoreSize(s, c.route)
    [] c.op = "Snapshot" -> c.ret \in StoreSnapshots(s)

\* C5: a Contains, Size or Snapshot that runs while Load runs returns what the
\* whole store before some Load or the whole store after it answers, never a
\* mix with only some routes of the new snapshot.
LoadAtomicForReaders ==
  \A p \in Readers :
     pc[p] = "returned" => \E s \in seen[p] : Answers(call[p], s)

LoadAtomicWitness ==
  \E p \in Readers :
     /\ pc[p] = "returned" /\ call[p].op = "Snapshot"
     /\ Cardinality(seen[p]) = 2
     /\ DOMAIN whole = Routes
     /\ call[p].ret = [r \in Routes |-> IF r = RouteA THEN <<Plain>> ELSE <<Y24x1>>]

\* the reasons for which a ProcessReference call is to fail: no feed for the
\* topic and headers, a payload that is not a JSON object, or a configured
\* path of the selected feed with no value in the payload
MustFail(c) ==
  \/ c.ret.feed = ""
  \/ c.arg.payload[1] # "obj"
  \/ \E path \in ConfiguredPaths(c.ret.feed) : ~HasValueAt(c.arg.payload, path)

\* C11: a ProcessReference call fails exactly when no feed matches, the
\* payload is not a JSON object or a configured field path has no value; a
\* failing call returns added = false and leaves the store as it was, the
\* values of the configured fields that are present included.
FailingReferenceAddsNothing ==
  last.op = "ProcessReference" =>
    /\ MustFail(last) <=> last.ret.err # ""
    /\ last.ret.err # "" => (~last.ret.added /\ values = last.pre)

FailingReferenceWitness ==
  /\ last.op = "ProcessReference" /\ last.ret.err # "" /\ last.ret.feed = "feed-d"
  /\ HasValueAt(last.arg.payload, <<KeyA>>)
  /\ ~HasValueAt(last.arg.payload, <<KeyS, KeyB>>)
  /\ yearVariants(Sprint(ValueAt(last.arg.payload, <<KeyA>>))) \cap Held(values, last.route) = {}

\* the places, in configuration order, of the feeds of a route that are on
\* the topic of a message and whose required headers the message satisfies
Satisfying(route, topic, headers) ==
  {i \in 1..Len(Matchers[route].feeds) :
     /\ FeedConfig[route][i].topic = topic
     /\ headersMatch(Matchers[route].feeds[i].topicHeaders, headers)}

\* the places of the feeds of a route on a topic that require no header
Unqualified(route, topic) ==
  {i \in 1..Len(FeedConfig[route]) :
     FeedConfig[route][i].topic = topic /\ FeedConfig[route][i].topicHeaders = << >>}

\* the place in the configuration of the feed a ProcessReference call selected
SelectedPlace(c) ==
  CHOOSE i \in 1..Len(FeedConfig[c.route]) : FeedConfig[c.route][i].name = c.ret.feed

\* C12: the feed selected for a reference message is the first, in
\* configuration order, on the message's topic whose required headers are
\* satisfied; no feed is found only when there is none; a feed requiring no
\* header is selected before any feed configured after it on its topic.
FirstMatchingFeed ==
  last.op = "ProcessReference" =>
    LET sat == Satisfying(last.route, last.arg.topic, last.arg.headers)
    IN  /\ last.ret.err = "no feed" <=> sat = {}
        /\ sat # {} =>
             /\ SelectedPlace(last) \in sat
             /\ \A j \in sat : SelectedPlace(last) <= j
             /\ \A j \in Unqualified(last.route, last.arg.topic) : SelectedPlace(last) <= j

FirstMatchingFeedWitness ==
  /\ last.op = "ProcessReference" /\ last.ret.feed = "feed-b"
  /\ Cardinality(Satisfying(last.route, last.arg.topic, last.arg.headers)) = 2
  /\ DOMAIN last.arg.headers = {KeyK}

\* a message carries the configured header kv ("key=value") when one of its
\* header keys equals the configured key up to letter case and has the value
Carries(headers, kv) ==
  LET parts == SplitN2(kv, "=")
  IN  \E key \in DOMAIN headers :
         ToLower(key) = ToLower(parts[1]) /\ headers[key] = parts[2]

\* the places of the feeds of a route on a topic whose configured headers a
\* message carries, keys compared without regard to letter case
CarryingFeeds(route, topic, headers) ==
  {i \in 1..Len(FeedConfig[route]) :
     /\ FeedConfig[route][i].topic = topic
     /\ \A n \in 1..Len(FeedConfig[route][i].topicHeaders) :
          Carries(headers, FeedConfig[route][i].topicHeaders[n])}

\* C13: required-header keys are compared without regard to letter case, in
\* the configured key and in the incoming key alike: the feed selected for a
\* reference message is the first whose configured headers the message
\* carries up to the case of the keys, and none is selected when no feed's
\* headers are carried.
HeaderKeysCaseInsensitive ==
  last.op = "ProcessReference" =>
    LET got == CarryingFeeds(last.route, last.arg.topic, last.arg.headers)
    IN  /\ last.ret.err = "no feed" <=> got = {}
        /\ got # {} => (SelectedPlace(last) \in got /\ \A j \in got : SelectedPlace(last) <= j)

(***************************************************************************)
(* lookupField on its own: the calls of lookupField on a range of payloads *)
(* and field paths, the paths given by their segments.                     *)
(***************************************************************************)
RECURSIVE JoinDot(_)
\* the field path with the given segments, as configuration writes it
JoinDot(segs) ==
  IF Len(segs) = 1 THEN segs[1] ELSE segs[1] \o <<".">> \o JoinDot(Tail(segs))

\* decoded reference payloads (the fields of the JSON object)
LookupPayloads ==
  {NoFields,
   [x \in {KeyA} |-> JStr(Y2024x1)],
   [x \in {KeyA} |-> JNum(24)],
   [x \in {KeyA, KeyS} |-> IF x = KeyA THEN JStr(Y24x1) ELSE JStr(Plain)],
   [x \in {KeyA, KeyS} |-> IF x = KeyA THEN JStr(Plain) ELSE Obj1(KeyB, JStr(Y24x2))],
   [x \in {KeyS} |-> JObj(NoFields)],
   [x \in {KeyS} |-> JNull],
   [x \in {KeyS} |-> JArr(<<Obj1(KeyB, JStr(Plain))>>)],
   [x \in {KeyS} |-> Obj1(KeyB, Obj1(KeyA, JStr(Plain)))],
   [x \in {KeyB, KeyC} |-> IF x = KeyB THEN JBool(TRUE) ELSE JStr(Y24x2)]}

\* field paths, by their segments
LookupPaths ==
  {<<KeyA>>, <<KeyB>>, <<KeyC>>, <<KeyS>>,
   <<KeyS, KeyB>>, <<KeyS, KeyA>>, <<KeyA, KeyB>>, <<KeyC, KeyB>>, <<KeyB, KeyC>>,
   <<KeyS, KeyB, KeyA>>, <<KeyA, KeyB, KeyC>>, <<KeyS, KeyB, KeyA, KeyC>>}

LookupField(payload, segs) ==
  /\ last.op = "none"
  /\ UNCHANGED <<values, aside>>
  /\ last' = Done("lookupField", "", [payload |-> payload, path |-> segs],
                  lookupField(payload, JoinDot(segs)))

NextFields ==
  \/ \E payload \in LookupPayloads, segs \in LookupPaths : LookupField(payload, segs)
  \/ Return

SpecFields == Init /\ [][NextFields]_vars

\* C14: lookupField returns the value at a path of one or two segments that
\* are all present; it fails with "not found" for a path naming an absent
\* key, a two-segment path whose first segment is absent included, with
\* "missing nested object" when the first of two segments is present but is
\* no object, and with "depth unsupported" for more than two segments.
LookupFieldOutcomes ==
  last.op = "lookupField" =>
    LET p == last.arg.payload
        segs == last.arg.path
        r == last.ret
    IN  CASE Len(segs) = 1 ->
               IF segs[1] \in DOMAIN p
                 THEN r.err = "" /\ r.val = p[segs[1]]
                 ELSE r.err = "not found"
          [] Len(segs) = 2 ->
               IF segs[1] \notin DOMAIN p THEN r.err = "not found"
               ELSE IF p[segs[1]][1] # "obj" THEN r.err = "missing nested object"
               ELSE IF segs[2] \in DOMAIN p[segs[1]][2]
                 THEN r.err = "" /\ r.val = p[segs[1]][2][segs[2]]
                 ELSE r.err = "not found"
          [] OTHER -> r.err = "depth unsupported"

(***************************************************************************)
(* The writer pool under concurrent callers, one step per statement.  Get  *)
(* and Close take p.mu first and release it on return.  A writer is named  *)
(* by its place in made, the order of construction.                        *)
(***************************************************************************)
DestTopics == {"dst-1", "dst-2"}

\* how dialing the broker and its controller can end
DialResults == {"ok", "dial broker", "get controller", "dial controller"}

\* the error CreateTopics can return for a topic, "" for none
CreateResults(topic) ==
  IF topic \in topics THEN {"Topic Already Exists", "Request Timed Out"}
  ELSE {"", "Request Timed Out"}

\* strings.Contains(strings.ToLower(err.Error()), "exists"), on the errors
\* CreateTopics returns here
MentionsExists(msg) == msg = "Topic Already Exists"

\* ensureTopicExists that reports no failure
ensureTopicExistsIgnoreErrors(dial, created) == ""

\* ensureTopicExists: the error returned, "" for nil, given how the dialing
\* ended and what CreateTopics returned
ensureTopicExists(dial, created) ==
  IF dial # "ok" THEN dial
  ELSE IF created # ""
    THEN IF MentionsExists(created) THEN "" ELSE "create topic"
  ELSE ""

NoWriter == [writer |-> 0, err |-> ""]

\* a streamer calls writers.Get(topic)
CallGet(p, topic) ==
  /\ pc[p] = "idle"
  /\ pc' = [pc EXCEPT ![p] = "PoolLock"]
  /\ call' = [call EXCEPT ![p] = [Idle EXCEPT !.op = "Get", !.arg = topic,
                                              !.out = "", !.ret = NoWriter]]
  /\ UNCHANGED <<values, last, snap, taken, life, mu, whole, seen, cut, pool, pipe>>

\* main calls writerPool.Close(), once
CallClose(p) ==
  /\ pc[p] = "idle"
  /\ closed = << >>
  /\ pc' = [pc EXCEPT ![p] = "PoolLock"]
  /\ call' = [call EXCEPT ![p] = [Idle EXCEPT !.op = "Close", !.ret = ""]]
  /\ UNCHANGED <<values, last, snap, taken, life, mu, whole, seen, cut, pool, pipe>>

\* p.mu.Lock() that does not wait for the holder
PoolLockNoWait(p) ==
  /\ pc[p] = "PoolLock"
  /\ pmu' = p
  /\ pc' = [pc EXCEPT ![p] = IF call[p].op = "Get" THEN "Lookup" ELSE "CloseRange"]
  /\ call' = [call EXCEPT ![p].todo = writers]
  /\ UNCHANGED <<values, last, snap, taken, life, mu, whole, seen, cut,
                 writers, made, topics, failed, closed, pipe>>

\* p.mu.Lock(): waits until the lock is free; todo keeps the table as it is
\* when the lock is taken
PoolLock(p) ==
  /\ pc[p] = "PoolLock"
  /\ pmu = ""
  /\ pmu' = p
  /\ pc' = [pc EXCEPT ![p] = IF call[p].op = "Get" THEN "Lookup" ELSE "CloseRange"]
  /\ call' = [call EXCEPT ![p].todo = writers]
  /\ UNCHANGED <<values, last, snap, taken, life, mu, whole, seen, cut,
                 writers, made, topics, failed, closed, pipe>>

\* Get: if writer, ok := p.writers[topic]; ok { return writer, nil }
Lookup(p) ==
  /\ pc[p] = "Lookup"
  /\ IF call[p].arg \in DOMAIN writers
       THEN /\ call' = [call EXCEPT ![p].ret = [writer |-> writers[call[p].arg], err |-> ""]]
            /\ pc' = [pc EXCEPT ![p] = "PoolUnlock"]
       ELSE /\ pc' = [pc EXCEPT ![p] = "Ensure"]
            /\ UNCHANGED call
  /\ UNCHANGED <<values, last, snap, taken, life, mu, whole, seen, cut, pool, pipe>>

\* Get: if err := ensureTopicExists(...); err != nil { return nil, err };
\* out keeps how the step ended
Ensure(p, dial, created) ==
  LET topic == call[p].arg
      err == ensureTopicExists(dial, created)
      ended == IF dial # "ok" THEN dial ELSE IF created = "" THEN "created" ELSE created
  IN  /\ pc[p] = "Ensure"
      /\ created \in CreateResults(topic)
      /\ topics' = IF dial = "ok" /\ created = "" THEN topics \cup {topic} ELSE topics
      /\ failed' = IF dial # "ok" \/ created \notin {"", "Topic Already Exists"}
                     THEN failed \cup {topic} ELSE failed
      /\ call' = [call EXCEPT ![p].out = ended, ![p].ret = [writer |-> 0, err |-> err]]
      /\ pc' = [pc EXCEPT ![p] = IF err # "" THEN "PoolUnlock" ELSE "NewWriter"]
      /\ UNCHANGED <<values, last, snap, taken, life, mu, whole, seen, cut,
                     writers, pmu, made, closed, pipe>>

\* Get: writer := kafka.NewWriter(...); p.writers[topic] = writer
NewWriter(p) ==
  LET topic == call[p].arg
      writer == Len(made) + 1
  IN  /\ pc[p] = "NewWriter"
      /\ made' = Append(made, topic)
      /\ writers' = [t \in DOMAIN writers \cup {topic} |->
                       IF t = topic THEN writer ELSE writers[t]]
      /\ call' = [call EXCEPT ![p].ret = [writer |-> writer, err |-> ""]]
      /\ pc' = [pc EXCEPT ![p] = "PoolUnlock"]
      /\ UNCHANGED <<values, last, snap, taken, life, mu, whole, seen, cut,
                     pmu, topics, failed, closed, pipe>>

\* Close: var firstErr error; for topic, writer := range p.writers
CloseRange(p) ==
  /\ pc[p] = "CloseRange"
  /\ call' = [call EXCEPT ![p].todo = DOMAIN writers, ![p].ret = ""]
  /\ pc' = [pc EXCEPT ![p] = "CloseWriter"]
  /\ UNCHANGED <<values, last, snap, taken, life, mu, whole, seen, cut, pool, pipe>>

\* the loop of Close that returns at the first failure
CloseWriterStopAtError(p, ok) ==
  /\ pc[p] = "CloseWriter"
  /\ IF call[p].todo = {} \/ call[p].ret # ""
       THEN /\ pc' = [pc EXCEPT ![p] = "PoolUnlock"]
            /\ UNCHANGED <<call, closed>>
       ELSE \E topic \in call[p].todo :
              /\ closed' = Append(closed, [topic |-> topic, writer |-> writers[topic], ok |-> ok])
              /\ call' = [call EXCEPT ![p].todo = @ \ {topic},
                                      ![p].ret = IF ~ok THEN topic ELSE @]
              /\ pc' = [pc EXCEPT ![p] = "CloseWriter"]
  /\ UNCHANGED <<values, last, snap, taken, life, mu, whole, seen, cut,
                 writers, pmu, made, topics, failed, pipe>>

\* Close: one round of the loop (the order is the map's), or its end;
\* ret is the topic of the writer firstErr is about, "" for nil
CloseWriter(p, ok) ==
  /\ pc[p] = "CloseWriter"
  /\ IF call[p].todo = {}
       THEN /\ pc' = [pc EXCEPT ![p] = "PoolUnlock"]
            /\ UNCHANGED <<call, closed>>
       ELSE \E topic \in call[p].todo :
              /\ closed' = Append(closed, [topic |-> topic, writer |-> writers[topic], ok |-> ok])
              /\ call' = [call EXCEPT ![p].todo = @ \ {topic},
                                      ![p].ret = IF ~ok /\ @ = "" THEN topic ELSE @]
              /\ pc' = [pc EXCEPT ![p] = "CloseWriter"]
  /\ UNCHANGED <<values, last, snap, taken, life, mu, whole, seen, cut,
                 writers, pmu, made, topics, failed, pipe>>

\* the deferred p.mu.Unlock() and the return
PoolUnlock(p) ==
  /\ pc[p] = "PoolUnlock"
  /\ pmu' = ""
  /\ pc' = [pc EXCEPT ![p] = "returned"]
  /\ UNCHANGED <<values, last, snap, taken, life, mu, call, whole, seen, cut,
                 writers, made, topics, failed, closed, pipe>>

\* another client of the bridge cluster creates the topic
CreateElsewhere(topic) ==
  /\ topic \notin topics
  /\ topics' = topics \cup {topic}
  /\ UNCHANGED <<values, last, snap, taken, life, tasks, writers, pmu, made, failed, closed, pipe>>

NextPool ==
  \/ \E p \in Getters, topic \in DestTopics : CallGet(p, topic)
  \/ \E p \in Closers : CallClose(p)
  \/ \E p \in Getters \cup Closers : PoolLock(p)
  \/ \E p \in Getters : Lookup(p)
  \/ \E p \in Getters, dial \in DialResults,
        created \in {"", "Topic Already Exists", "Request Timed Out"} : Ensure(p, dial, created)
  \/ \E p \in Getters : NewWriter(p)
  \/ \E p \in Closers : CloseRange(p)
  \/ \E p \in Closers, ok \in BOOLEAN : CloseWriter(p, ok)
  \/ \E p \in Getters \cup Closers : PoolUnlock(p)
  \/ \E p \in Getters \cup Closers : TaskReturn(p)
  \/ \E topic \in DestTopics : CreateElsewhere(topic)

SpecPool == Init /\ [][NextPool]_vars

\* a task is at the end of a Get call, about to unlock or back at its caller
GetEnded(p) == call[p].op = "Get" /\ pc[p] \in {"PoolUnlock", "returned"}

\* the outcomes of the ensure step that are failures
EnsureFailures == (DialResults \ {"ok"}) \cup {"Request Timed Out"}

\* C15: whatever the interleaving of Get calls, at most one writer is ever
\* constructed for a topic; a successful Get returns the writer constructed
\* for its topic, and one that finds the topic cached returns the cached
\* writer without an ensure step.
OneWriterPerTopic ==
  /\ \A t \in DestTopics : Cardinality({i \in 1..Len(made) : made[i] = t}) <= 1
  /\ \A p \in Getters :
       (GetEnded(p) /\ call[p].ret.err = "") =>
          /\ call[p].ret.writer \in 1..Len(made)
          /\ made[call[p].ret.writer] = call[p].arg
          /\ call[p].arg \in DOMAIN call[p].todo =>
               (call[p].out = "" /\ call[p].ret.writer = call[p].todo[call[p].arg])

OneWriterPerTopicWitness ==
  \E p, q \in Getters :
     /\ p # q /\ pc[p] = "returned" /\ pc[q] = "returned"
     /\ call[p].op = "Get" /\ call[q].op = "Get" /\ call[p].arg = call[q].arg
     /\ call[p].out = "created" /\ call[q].out = ""
     /\ call[p].ret.err = "" /\ call[q].ret = call[p].ret

\* C16: a writer is constructed and cached only after the ensure step of the
\* same Get has succeeded, so for a topic that exists; "already exists"
\* from topic creation is success; any other failure of the step makes Get
\* return an error with the table as it was, and a Get that finds no cached
\* writer runs the step, also after an earlier failure.
EnsureBeforeWriter ==
  /\ \A t \in DOMAIN writers : t \in topics
  /\ \A p \in Getters :
       /\ pc[p] = "NewWriter" =>
            (call[p].out \in {"created", "Topic Already Exists"} /\ call[p].arg \in topics)
       /\ GetEnded(p) =>
            /\ call[p].out = "Topic Already Exists" => call[p].ret.err = ""
            /\ call[p].out \in EnsureFailures =>
                 /\ call[p].ret.err # ""
                 /\ pc[p] = "PoolUnlock" =>
                      (writers = call[p].todo /\ call[p].arg \notin DOMAIN writers)
            /\ call[p].arg \notin DOMAIN call[p].todo => call[p].out # ""

EnsureBeforeWriterWitness ==
  \E p \in Getters :
     /\ pc[p] = "returned" /\ call[p].op = "Get"
     /\ call[p].arg \in failed
     /\ call[p].out = "Topic Already Exists"
     /\ call[p].ret.err = "" /\ call[p].arg \in DOMAIN writers

\* C17: Close calls Close on every cached writer, once each, also after one
\* of them failed, and returns the error of the first that failed, nil when
\* none did.
CloseClosesAll ==
  \A p \in Closers :
     (pc[p] = "PoolUnlock" /\ call[p].op = "Close") =>
        LET bad == {i \in 1..Len(closed) : ~closed[i].ok}
        IN  /\ {closed[i].topic : i \in 1..Len(closed)} = DOMAIN writers
            /\ Len(closed) = Cardinality(DOMAIN writers)
            /\ \A i \in 1..Len(closed) : closed[i].writer = writers[closed[i].topic]
            /\ call[p].ret = IF bad = {} THEN ""
                             ELSE closed[CHOOSE i \in bad : \A j \in bad : i <= j].topic

CloseClosesAllWitness ==
  \E p \in Closers :
     /\ pc[p] = "PoolUnlock" /\ call[p].op = "Close"
     /\ Len(closed) = 2 /\ ~closed[1].ok /\ ~closed[2].ok
     /\ call[p].ret = closed[1].topic

(***************************************************************************)
(* The route pipelines: per route a reference collector and a source       *)
(* streamer, each a loop of one read and the handling of the message read. *)
(* The calls a loop makes on the matcher and on the pool are taken whole.  *)
(***************************************************************************)
MaxMessages == 4

RouteOf(p) == IF p \in {"streamer-1", "collector-1"} THEN RouteA ELSE RouteB

SourceTopic(route) == IF route = RouteA THEN "src-1" ELSE "src-2"

DestinationTopic(route) == IF route = RouteA THEN "dst-1" ELSE "dst-2"

\* the messages a streamer can read from the source topic of its route
SourceMessages(route) ==
  {[key |-> "k1", value |-> JStr(Plain), headers |-> <<[key |-> "h", value |-> "1"]>>,
    time |-> 1, topic |-> SourceTopic(route), offset |-> 7],
   [key |-> "k2", value |-> Malformed, headers |-> << >>,
    time |-> 2, topic |-> SourceTopic(route), offset |-> 8],
   [key |-> "k3", value |-> Obj1(KeyK, JStr(Y2024x1)), headers |-> << >>,
    time |-> 3, topic |-> SourceTopic(route), offset |-> 9]}

\* the messages a collector can read from the reference topics of its route
ReferenceMessages(route) ==
  {[key |-> "r1",
    value |-> Obj2(KeyA, JStr(Y24x1), KeyS, Obj1(KeyB, JStr(Plain))),
    headers |-> NoHeaders, time |-> 1,
    topic |-> FeedConfig[route][1].topic, offset |-> 1],
   [key |-> "r2", value |-> Malformed, headers |-> NoHeaders, time |-> 2,
    topic |-> FeedConfig[route][1].topic, offset |-> 2],
   [key |-> "r3", value |-> Obj1(KeyA, JStr(Y24x1)), headers |-> NoHeaders, time |-> 3,
    topic |-> FeedConfig[route][1].topic, offset |-> 3]}

\* the messages read so far, over all loops
Reads == loop["streamer-1"].n + loop["streamer-2"].n
           + loop["collector-1"].n + loop["collector-2"].n

\* cloneMessage that leaves the headers out
cloneMessageNoHeaders(m) ==
  [key |-> m.key, value |-> m.value, headers |-> << >>, time |-> m.time,
   topic |-> "", offset |-> 0]

\* cloneMessage: key, value, headers and time are copied, the other fields
\* of the message are left at their zero values
cloneMessage(m) ==
  [key |-> m.key, value |-> m.value, headers |-> m.headers, time |-> m.time,
   topic |-> "", offset |-> 0]

\* WriterPool.Get taken whole: [writer, err] and the table, the writers
\* made, the topics of the cluster and the failed ensures it leaves
PoolGet(topic, dial, created) ==
  LET err == ensureTopicExists(dial, created)
      writer == Len(made) + 1
  IN  IF topic \in DOMAIN writers
        THEN [writer |-> writers[topic], err |-> "", writers |-> writers, made |-> made,
              topics |-> topics, failed |-> failed]
      ELSE IF err # ""
        THEN [writer |-> 0, err |-> err, writers |-> writers, made |-> made,
              topics |-> topics, failed |-> failed \cup {topic}]
      ELSE [writer |-> writer, err |-> "",
            writers |-> [t \in DOMAIN writers \cup {topic} |->
                           IF t = topic THEN writer ELSE writers[t]],
            made |-> Append(made, topic),
            topics |-> topics \cup {topic},
            failed |-> failed]

\* streamRoute: msg, err := reader.ReadMessage(ctx), a message
StreamRead(p, msg) ==
  /\ loop[p].at = "read"
  /\ Reads < MaxMessages
  /\ loop' = [loop EXCEPT ![p] = [@ EXCEPT !.at = "match", !.n = @ + 1, !.msg = msg]]
  /\ UNCHANGED <<values, last, snap, taken, life, tasks, pool, writes>>

\* a read that ends the whole process on an error
StreamReadErrorFatal(p) ==
  /\ loop[p].at = "read"
  /\ loop' = [loop EXCEPT ![p] = [@ EXCEPT !.at = "stopped", !.prev = "read failed"]]
  /\ main' = [main EXCEPT !.pc = "exited"]
  /\ UNCHANGED <<values, last, snap, taken, tasks, pool, writes,
                 ctx, http, flusher, disk, cfg, built>>

\* the handling of a read error that logs it and reads again
StreamReadErrorContinue(p) ==
  /\ loop[p].at = "read"
  /\ loop' = [loop EXCEPT ![p] = [@ EXCEPT !.at = "read", !.prev = "read failed"]]
  /\ UNCHANGED <<values, last, snap, taken, life, tasks, pool, writes>>

\* streamRoute: msg, err := reader.ReadMessage(ctx), an error (the context
\* is cancelled or the transport failed): return err
StreamReadError(p) ==
  /\ loop[p].at = "read"
  /\ loop' = [loop EXCEPT ![p] = [@ EXCEPT !.at = "stopped", !.prev = "read failed"]]
  /\ UNCHANGED <<values, last, snap, taken, life, tasks, pool, writes>>

\* the message in the hands of streamer p, as a message it did not forward
Miss(p) == [n |-> loop[p].n, value |-> loop[p].msg.value]

\* the handling of a message without a match that keeps it and decides again
StreamMatchAgain(p) ==
  LET r == MatcherShouldForward(values, Matchers[RouteOf(p)], loop[p].msg.value)
  IN  /\ loop[p].at = "match"
      /\ loop' = [loop EXCEPT ![p] =
                    IF r.err THEN [@ EXCEPT !.at = "read", !.prev = "invalid payload"]
                    ELSE IF ~r.ret THEN [@ EXCEPT !.at = "match", !.prev = "no match",
                                                  !.misses = @ \cup {Miss(p)}]
                    ELSE [@ EXCEPT !.at = "get", !.store = values]]
      /\ UNCHANGED <<values, last, snap, taken, life, tasks, pool, writes>>

\* the handling of a payload error that ends the loop
StreamMatchStopOnError(p) ==
  LET r == MatcherShouldForward(values, Matchers[RouteOf(p)], loop[p].msg.value)
  IN  /\ loop[p].at = "match"
      /\ loop' = [loop EXCEPT ![p] =
                    IF r.err THEN [@ EXCEPT !.at = "stopped", !.prev = "invalid payload"]
                    ELSE IF ~r.ret THEN [@ EXCEPT !.at = "read", !.prev = "no match",
                                                  !.misses = @ \cup {Miss(p)}]
                    ELSE [@ EXCEPT !.at = "get", !.store = values]]
      /\ UNCHANGED <<values, last, snap, taken, life, tasks, pool, writes>>

\* streamRoute: match, err := matcher.ShouldForward(msg.Value) and the two
\* continue branches; store keeps the store the decision was taken on
StreamMatch(p) ==
  LET r == MatcherShouldForward(values, Matchers[RouteOf(p)], loop[p].msg.value)
  IN  /\ loop[p].at = "match"
      /\ loop' = [loop EXCEPT ![p] =
                    IF r.err THEN [@ EXCEPT !.at = "read", !.prev = "invalid payload"]
                    ELSE IF ~r.ret THEN [@ EXCEPT !.at = "read", !.prev = "no match",
                                                  !.misses = @ \cup {Miss(p)}]
                    ELSE [@ EXCEPT !.at = "get", !.store = values]]
      /\ UNCHANGED <<values, last, snap, taken, life, tasks, pool, writes>>

\* streamRoute: writer, err := writers.Get(route.DestinationTopic)
StreamGet(p, dial, created) ==
  LET g == PoolGet(DestinationTopic(RouteOf(p)), dial, created)
  IN  /\ loop[p].at = "get"
      /\ pmu = ""
      /\ created \in CreateResults(DestinationTopic(RouteOf(p)))
      /\ writers' = g.writers
      /\ made' = g.made
      /\ topics' = g.topics
      /\ failed' = g.failed
      /\ loop' = [loop EXCEPT ![p] =
                    IF g.err # "" THEN [@ EXCEPT !.at = "read", !.prev = "ensure failed"]
                    ELSE [@ EXCEPT !.at = "write", !.writer = g.writer]]
      /\ UNCHANGED <<values, last, snap, taken, life, tasks, pmu, closed, writes>>

\* the handling of a failed write that tries the write again
StreamWriteRetry(p, ok) ==
  /\ loop[p].at = "write"
  /\ writes' = Append(writes,
                 [topic |-> made[loop[p].writer], msg |-> cloneMessage(loop[p].msg),
                  ok |-> ok, by |-> p, n |-> loop[p].n,
                  read |-> loop[p].msg, store |-> loop[p].store])
  /\ loop' = [loop EXCEPT ![p] =
                IF ok THEN [@ EXCEPT !.at = "read", !.prev = "forwarded"]
                ELSE [@ EXCEPT !.at = "write", !.prev = "write failed"]]
  /\ UNCHANGED <<values, last, snap, taken, life, tasks, pool>>

\* streamRoute: writer.WriteMessages(ctx, cloneMessage(msg)), to the topic
\* the writer is bound to; by, n, read and store keep which message of which
\* loop the call is for and the store its match was decided on
StreamWrite(p, ok) ==
  /\ loop[p].at = "write"
  /\ writes' = Append(writes,
                 [topic |-> made[loop[p].writer], msg |-> cloneMessage(loop[p].msg),
                  ok |-> ok, by |-> p, n |-> loop[p].n,
                  read |-> loop[p].msg, store |-> loop[p].store])
  /\ loop' = [loop EXCEPT ![p] =
                [@ EXCEPT !.at = "read", !.prev = IF ok THEN "forwarded" ELSE "write failed"]]
  /\ UNCHANGED <<values, last, snap, taken, life, tasks, pool>>

\* runReferenceCollector: msg, err := reader.ReadMessage(ctx), a message
CollectRead(p, msg) ==
  /\ loop[p].at = "read"
  /\ Reads < MaxMessages
  /\ loop' = [loop EXCEPT ![p] = [@ EXCEPT !.at = "process", !.n = @ + 1, !.msg = msg]]
  /\ UNCHANGED <<values, last, snap, taken, life, tasks, pool, writes>>

\* runReferenceCollector: msg, err := reader.ReadMessage(ctx), an error
CollectReadError(p) ==
  /\ loop[p].at = "read"
  /\ loop' = [loop EXCEPT ![p] = [@ EXCEPT !.at = "stopped", !.prev = "read failed"]]
  /\ UNCHANGED <<values, last, snap, taken, life, tasks, pool, writes>>

\* runReferenceCollector: added, err := matcher.ProcessReference(...), the
\* continue on an error and the log line on added
CollectProcess(p) ==
  LET r == MatcherProcessReference(values, Matchers[RouteOf(p)], loop[p].msg.topic,
                                   loop[p].msg.headers, loop[p].msg.value)
  IN  /\ loop[p].at = "process"
      /\ values' = r.store
      /\ loop' = [loop EXCEPT ![p] =
                    [@ EXCEPT !.at = "read",
                              !.prev = IF r.err # "" THEN "invalid payload"
                                       ELSE IF r.added THEN "stored" ELSE "known"]]
      /\ UNCHANGED <<last, snap, taken, life, tasks, pool, writes>>

NextPipe ==
  \/ \E p \in Streamers : \E msg \in SourceMessages(RouteOf(p)) : StreamRead(p, msg)
  \/ \E p \in Streamers : StreamReadError(p)
  \/ \E p \in Streamers : StreamMatch(p)
  \/ \E p \in Streamers, dial \in DialResults,
        created \in {"", "Topic Already Exists", "Request Timed Out"} :
        StreamGet(p, dial, created)
  \/ \E p \in Streamers, ok \in BOOLEAN : StreamWrite(p, ok)
  \/ \E p \in Collectors : \E msg \in ReferenceMessages(RouteOf(p)) : CollectRead(p, msg)
  \/ \E p \in Collectors : CollectReadError(p)
  \/ \E p \in Collectors : CollectProcess(p)

SpecPipe == Init /\ [][NextPipe]_vars

\* C18: every message written to a topic was read by the streamer of a
\* route from the source topic of that route, went to the destination topic
\* of that route, has the key, value, headers and timestamp of the message
\* read, had ShouldForward of that route return true on the store of the
\* moment, and was written once.
ForwardingSafety ==
  \A i \in 1..Len(writes) :
     LET e == writes[i]
         route == RouteOf(e.by)
     IN  e.ok =>
           /\ e.by \in Streamers
           /\ e.read.topic = SourceTopic(route)
           /\ e.topic = DestinationTopic(route)
           /\ e.msg.key = e.read.key /\ e.msg.value = e.read.value
           /\ e.msg.headers = e.read.headers /\ e.msg.time = e.read.time
           /\ MatcherShouldForward(e.store, Matchers[route], e.read.value)
                = [ret |-> TRUE, err |-> FALSE]
           /\ \A j \in 1..Len(writes) :
                (j # i /\ writes[j].ok) => ~(writes[j].by = e.by /\ writes[j].n = e.n)

ForwardingSafetyWitness ==
  /\ \E i, j \in 1..Len(writes) :
        /\ writes[i].ok /\ writes[j].ok
        /\ writes[i].topic = "dst-1" /\ writes[j].topic = "dst-2"
        /\ writes[i].msg.headers # << >>
  /\ values # EmptyStore

\* a loop is about to handle a message whose payload fails
PayloadFails(p) ==
  \/ /\ p \in Streamers /\ loop[p].at = "match"
     /\ MatcherShouldForward(values, Matchers[RouteOf(p)], loop[p].msg.value).err
  \/ /\ p \in Collectors /\ loop[p].at = "process"
     /\ MatcherProcessReference(values, Matchers[RouteOf(p)], loop[p].msg.topic,
                                loop[p].msg.headers, loop[p].msg.value).err # ""

\* C19: the step a loop takes on a message whose payload fails to parse or
\* lacks a configured field leaves the loop running, back at its read, with
\* nothing stored or written; and a loop handles a message only as the step
\* after reading it, so no message is handled a second time.
PayloadErrorsPerMessage ==
  [][\A p \in Loops :
       loop'[p] # loop[p] =>
         /\ PayloadFails(p) =>
              /\ loop'[p].at = "read" /\ loop'[p].n = loop[p].n
              /\ values' = values /\ writes' = writes
         /\ loop'[p].at \in {"match", "process"} =>
              (loop[p].at = "read" /\ loop'[p].n = loop[p].n + 1)]_vars

PayloadErrorsWitness ==
  \E p \in Collectors, q \in Streamers :
     /\ loop[p].prev = "invalid payload" /\ loop[p].n = 2 /\ loop[p].at = "process"
     /\ loop[q].prev = "invalid payload" /\ loop[q].n = 2 /\ loop[q].at = "match"

\* C20: a message whose write failed has no other write, to any topic, and
\* the step of the failed write takes the streamer back to its read, for the
\* next message.
FailedWriteDropped ==
  /\ [](\A i, j \in 1..Len(writes) :
          (i # j /\ ~writes[i].ok) => ~(writes[j].by = writes[i].by /\ writes[j].n = writes[i].n))
  /\ [][\A p \in Streamers :
          (loop[p].at = "write" /\ loop'[p] # loop[p] /\ ~writes'[Len(writes')].ok) =>
             (loop'[p].at = "read" /\ loop'[p].n = loop[p].n)]_vars

FailedWriteWitness ==
  \E p \in Streamers :
     /\ loop[p].prev = "write failed" /\ loop[p].n = 2 /\ loop[p].at = "match"
     /\ Len(writes) = 1 /\ ~writes[1].ok

\* the step of a loop whose read returned an error instead of a message
ReadFailed(p) == loop[p].at = "read" /\ loop'[p].n = loop[p].n

\* the step of a streamer whose Get returned an error
GetFailed(p) == loop[p].at = "get" /\ loop'[p].at # "write"

\* the step of a streamer whose WriteMessages returned an error
WriteFailed(p) == loop[p].at = "write" /\ ~writes'[Len(writes')].ok

\* C21, as stated: a loop that meets a failed read, a failed ensure of the
\* destination topic or a failed write terminates instead of going on.
TransportErrorsLoopFatal ==
  [][\A p \in Loops :
       (loop'[p] # loop[p] /\ (ReadFailed(p) \/ GetFailed(p) \/ WriteFailed(p)))
          => loop'[p].at = "stopped"]_vars

\* C21, amended: a loop whose read fails terminates, with the failure as
\* its last outcome; a streamer whose Get or write fails drops the message
\* and is back at its read.
ReadErrorsLoopFatal ==
  [][\A p \in Loops :
       loop'[p] # loop[p] =>
         /\ ReadFailed(p) => (loop'[p].at = "stopped" /\ loop'[p].prev = "read failed")
         /\ GetFailed(p) => (loop'[p].at = "read" /\ loop'[p].prev = "ensure failed")
         /\ WriteFailed(p) => (loop'[p].at = "read" /\ loop'[p].prev = "write failed")]_vars

ReadErrorsLoopFatalWitness ==
  \E p \in Streamers :
     /\ loop[p].at = "stopped" /\ loop[p].prev = "read failed" /\ loop[p].n = 2
     /\ DestinationTopic(RouteOf(p)) \in failed
     /\ \E i \in 1..Len(writes) : writes[i].by = p /\ ~writes[i].ok

\* C30: a source message for which ShouldForward returned false is out of
\* the streamer's hands and is in no write, whatever the store holds later;
\* every message in a write has a leaf that the store of its decision held.
NoReevaluation ==
  /\ \A p \in Streamers : \A m \in loop[p].misses :
        /\ \A i \in 1..Len(writes) : ~(writes[i].by = p /\ writes[i].n = m.n)
        /\ loop[p].n = m.n => loop[p].at \in {"read", "stopped"}
        /\ loop[p].n >= m.n
  /\ \A i \in 1..Len(writes) :
        LeavesOf(writes[i].read.value)
          \cap Held(writes[i].store, RouteOf(writes[i].by)) # {}

NoReevaluationWitness ==
  \E p \in Streamers : \E m \in loop[p].misses :
     /\ MatcherShouldForward(values, Matchers[RouteOf(p)], m.value).ret
     /\ loop[p].n > m.n
     /\ \E i \in 1..Len(writes) :
          writes[i].by = p /\ writes[i].ok /\ writes[i].read.value = m.value

\* C29: across a step that is not a Clear and not a Load, the set of every
\* route holds at least what it held before the step.
MonotonicGrowth ==
  [][last'.op \notin {"Clear", "Load"} =>
       \A r \in DOMAIN values \cup Routes : Held(values, r) \subseteq Held(values', r)]_vars

MonotonicGrowthWitness ==
  /\ last.op \in {"ProcessReference", "AddValues", "Add"}
  /\ \E r \in Routes : Held(last.pre, r) # {} /\ Held(last.pre, r) # Held(values, r)

(***************************************************************************)
(* The administrative listener: the handlers of startHTTPServer, one       *)
(* request at a time, each taken whole.  A body is the JSON text of the     *)
(* request as a value.                                                     *)
(***************************************************************************)
Methods == {"POST", "GET"}

\* what follows /reference/ in the path of a request
RouteIDs == Routes \cup {"", "route-x"}

\* the strings of a body that is an array of strings
StringArrays == SeqsUpTo(RawValues, MaxValuesLen)

AdminBodies ==
  {JArr([i \in DOMAIN a |-> JStr(a[i])]) : a \in StringArrays}
    \cup {JNull, JStr(Plain), Malformed, JArr(<<JStr(Plain), JNum(1)>>),
          JArr(<<JNull>>), JArr(<<JStr(Plain), JNull>>), Obj1(KeyA, JStr(Plain))}

\* json.NewDecoder(r.Body).Decode(&values) with values a []string: null
\* leaves the slice nil, an array element that is null leaves its string
\* empty, any other element that is not a string is an error
DecodeStrings(body) ==
  IF body[1] = "null" THEN [err |-> FALSE, values |-> << >>]
  ELSE IF body[1] # "arr" THEN [err |-> TRUE, values |-> << >>]
  ELSE IF \E i \in 1..Len(body[2]) : body[2][i][1] \notin {"str", "null"}
    THEN [err |-> TRUE, values |-> << >>]
  ELSE [err |-> FALSE,
        values |-> [i \in 1..Len(body[2]) |->
                      IF body[2][i][1] = "str" THEN body[2][i][2] ELSE << >>]]

Rejected(status, s) == [status |-> status, store |-> s]

\* the handler of /reference/ that hands the values to every matcher
ReferenceHandlerEveryRoute(s, method, routeID, body) ==
  LET d == DecodeStrings(body)
      a == MatcherAddValues(s, Matchers[RouteA], d.values)
      b == MatcherAddValues(a.store, Matchers[RouteB], d.values)
  IN  IF method # "POST" THEN Rejected(405, s)
      ELSE IF routeID = "" THEN Rejected(400, s)
      ELSE IF routeID \notin DOMAIN Matchers THEN Rejected(404, s)
      ELSE IF d.err THEN Rejected(400, s)
      ELSE IF Len(d.values) = 0 THEN Rejected(400, s)
      ELSE [status |-> IF a.added \/ b.added THEN 201 ELSE 200, store |-> b.store]

\* startHTTPServer, the handler of /reference/: [status, store]
ReferenceHandler(s, method, routeID, body) ==
  LET d == DecodeStrings(body)
  IN  IF method # "POST" THEN Rejected(405, s)
      ELSE IF routeID = "" THEN Rejected(400, s)
      ELSE IF routeID \notin DOMAIN Matchers THEN Rejected(404, s)
      ELSE IF d.err THEN Rejected(400, s)
      ELSE IF Len(d.values) = 0 THEN Rejected(400, s)
      ELSE LET r == MatcherAddValues(s, Matchers[routeID], d.values)
           IN  [status |-> IF r.added THEN 201 ELSE 200, store |-> r.store]

RECURSIVE AddToMatchers(_, _, _, _)
\* for _, matcher := range matchers { if matcher.AddValues(values) { added = true } }
AddToMatchers(s, todo, vals, added) ==
  IF todo = {} THEN [added |-> added, store |-> s]
  ELSE LET id == CHOOSE x \in todo : TRUE
           r == MatcherAddValues(s, Matchers[id], vals)
       IN  AddToMatchers(r.store, todo \ {id}, vals, added \/ r.added)

\* startHTTPServer, the handler of /referenceAllRoutes: [status, store]
AllRoutesHandler(s, method, body) ==
  LET d == DecodeStrings(body)
  IN  IF method # "POST" THEN Rejected(405, s)
      ELSE IF d.err THEN Rejected(400, s)
      ELSE IF Len(d.values) = 0 THEN Rejected(400, s)
      ELSE LET r == AddToMatchers(s, DOMAIN Matchers, d.values, FALSE)
           IN  [status |-> IF r.added THEN 201 ELSE 200, store |-> r.store]

\* the handler of the cache read path: on a GET the snapshot, as the values
\* of every route whatever the order of each list
CacheHandler(s, method) ==
  IF method # "GET" THEN Rejected(405, s) ELSE [status |-> 200, store |-> s, body |-> s]

\* the handler of the clear path: Clear, on a POST
CacheClearHandler(s, method) ==
  IF method # "POST" THEN Rejected(405, s)
  ELSE [status |-> 200, store |-> StoreClear(s).store]

Request(method, body) == [method |-> method, body |-> body]
Response(status, body) == [status |-> status, body |-> body]

ServeReference(method, routeID, body) ==
  LET r == ReferenceHandler(values, method, routeID, body)
  IN  /\ last.op = "none"
      /\ UNCHANGED aside
      /\ values' = r.store
      /\ last' = Done("/reference/", routeID, Request(method, body), Response(r.status, 0))

ServeAllRoutes(method, body) ==
  LET r == AllRoutesHandler(values, method, body)
  IN  /\ last.op = "none"
      /\ UNCHANGED aside
      /\ values' = r.store
      /\ last' = Done("/referenceAllRoutes", "", Request(method, body), Response(r.status, 0))

ServeCache(method) ==
  LET r == CacheHandler(values, method)
  IN  /\ last.op = "none"
      /\ UNCHANGED aside
      /\ values' = r.store
      /\ last' = Done("/cache", "", Request(method, JNull),
                      Response(r.status, IF r.status = 200 THEN r.body ELSE EmptyStore))

ServeCacheClear(method) ==
  LET r == CacheClearHandler(values, method)
  IN  /\ last.op = "none"
      /\ UNCHANGED aside
      /\ values' = r.store
      /\ last' = Done("/cache/clear", "", Request(method, JNull), Response(r.status, 0))

NextAdmin ==
  \/ \E method \in Methods, routeID \in RouteIDs, body \in AdminBodies :
        ServeReference(method, routeID, body)
  \/ \E method \in Methods, body \in AdminBodies : ServeAllRoutes(method, body)
  \/ \E method \in Methods : ServeCache(method)
  \/ \E method \in Methods : ServeCacheClear(method)
  \/ Return

SpecAdmin == Init /\ [][NextAdmin]_vars

\* the request in last is a POST of an array of at least one string
PostsStrings ==
  /\ last.arg.method = "POST"
  /\ last.arg.body[1] = "arr" /\ last.arg.body[2] # << >>
  /\ \A i \in 1..Len(last.arg.body[2]) : last.arg.body[2][i][1] = "str"

\* the strings of that array
Posted == [i \in 1..Len(last.arg.body[2]) |-> last.arg.body[2][i][2]]

\* C27: a POST of a string array to a configured route leaves that route
\* with what it held and the variants of the posted values and every other
\* route as it was; a POST to the all-routes path does so to every
\* configured route; the status is 201 when some route gained a value and
\* 200 when none did.
InjectionScope ==
  /\ (last.op = "/reference/" /\ last.route \in Routes /\ PostsStrings) =>
        /\ Held(values, last.route) = Held(last.pre, last.route) \cup Expanded(Posted)
        /\ \A r \in (DOMAIN values \cup Routes) \ {last.route} :
              Held(values, r) = Held(last.pre, r)
        /\ last.ret.status = IF Held(values, last.route) # Held(last.pre, last.route)
                               THEN 201 ELSE 200
  /\ (last.op = "/referenceAllRoutes" /\ PostsStrings) =>
        /\ \A r \in Routes : Held(values, r) = Held(last.pre, r) \cup Expanded(Posted)
        /\ last.ret.status = IF \E r \in Routes : Held(values, r) # Held(last.pre, r)
                               THEN 201 ELSE 200

InjectionScopeWitness ==
  /\ last.op = "/referenceAllRoutes" /\ PostsStrings
  /\ last.ret.status = 201
  /\ \E r \in Routes : Held(values, r) = Held(last.pre, r) /\ Held(values, r) # {}
  /\ Held(values, RouteA) # Held(values, RouteB)

\* the body of the request in last is an array of at least one string
StringArrayBody ==
  /\ last.arg.body[1] = "arr" /\ last.arg.body[2] # << >>
  /\ \A i \in 1..Len(last.arg.body[2]) : last.arg.body[2][i][1] = "str"

\* the request in last is one that is to be refused
ToBeRefused ==
  \/ last.op \in {"/reference/", "/referenceAllRoutes", "/cache/clear"}
       /\ last.arg.method # "POST"
  \/ last.op = "/cache" /\ last.arg.method # "GET"
  \/ last.op = "/reference/" /\ last.route \notin Routes
  \/ last.op \in {"/reference/", "/referenceAllRoutes"} /\ ~StringArrayBody

\* C28: a request with the wrong method, for an unknown route, or with a
\* body that is not a non-empty array of strings is answered with an error
\* status and leaves the store as it was; a read of the cache answers with
\* everything the store holds and leaves it as it was.
RejectedRequestsChangeNothing ==
  last.op \in {"/reference/", "/referenceAllRoutes", "/cache", "/cache/clear"} =>
    /\ ToBeRefused => (last.ret.status >= 400 /\ values = last.pre)
    /\ (last.op = "/cache" /\ last.arg.method = "GET") =>
          (last.ret.status = 200 /\ last.ret.body = last.pre /\ values = last.pre)

(***************************************************************************)
(* The process: main from its first statement to its return, the signal,   *)
(* the goroutine of the administrative listener, the goroutine of the      *)
(* snapshot writer, and the loops of the routes once main has started      *)
(* them.  When main has returned the process is gone and nothing runs.     *)
(***************************************************************************)
\* messages read by all loops together in the runs of the whole process
MaxLiveReads == 1

\* a loop main has not started
Unstarted == [Fresh EXCEPT !.at = "off"]

\* the goroutines main starts for the routes, in the order of the go statements
SpawnOrder(routes) ==
  SubSeq(<<"collector-1", "streamer-1", "collector-2", "streamer-2">>, 1, 2 * Len(routes))

\* the snapshot files a start can find
SavedStore == [r \in {RouteA} |-> {Plain}]
Disks ==
  {[path |-> TRUE, file |-> "none", content |-> EmptyStore],
   [path |-> TRUE, file |-> "bad", content |-> EmptyStore],
   [path |-> TRUE, file |-> "ok", content |-> SavedStore]}

\* the state main starts in, for the routes cfg and the snapshot file disk
Started(routes, d) ==
  /\ values = EmptyStore
  /\ last = NoCall
  /\ snap = EmptySnapshot
  /\ taken = EmptyStore
  /\ mu = NoLock
  /\ pc = [p \in Tasks |-> "idle"]
  /\ call = [p \in Tasks |-> Idle]
  /\ whole = EmptyStore
  /\ writers = NoWriters
  /\ pmu = ""
  /\ made = << >>
  /\ topics = {}
  /\ failed = {}
  /\ closed = << >>
  /\ loop = [p \in Loops |-> Unstarted]
  /\ writes = << >>
  /\ seen = [p \in Tasks |-> {}]
  /\ cut = FALSE
  /\ main = Starting
  /\ ctx = Live
  /\ http = "off"
  /\ flusher = "off"
  /\ disk = d
  /\ cfg = routes
  /\ built = NoMatchers

\* a start without a storage path
InitMain == Started(DefaultRoutes, NoDisk)

\* a start with a storage path
InitStorage == \E d \in Disks : Started(DefaultRoutes, d)

\* the process is there
Alive == main.pc \notin {"fatal", "exited"}

\* main: cfg, err := config.Load(cfgPath), log.Fatalf on an error; then the
\* context, the dialers, the writer pool and the store
MainLoadConfig ==
  /\ main.pc = "config"
  /\ main' = [main EXCEPT !.pc = IF ConfigValidate(cfg) # "" THEN "fatal" ELSE "matchers",
                          !.i = 1]
  /\ UNCHANGED <<values, last, snap, taken, tasks, pool, pipe,
                 ctx, http, flusher, disk, cfg, built>>

\* main: one round of the loop that fills matchers, or its end
MainNewMatcher ==
  /\ main.pc = "matchers"
  /\ IF main.i > Len(cfg)
       THEN /\ main' = [main EXCEPT !.pc = "storage"]
            /\ UNCHANGED built
       ELSE /\ built' = BuiltFrom(cfg, main.i)
            /\ main' = [main EXCEPT !.i = @ + 1]
  /\ UNCHANGED <<values, last, snap, taken, tasks, pool, pipe,
                 ctx, http, flusher, disk, cfg>>

\* a start that goes on while the snapshot is still to be loaded and loads
\* it later
MainLoadSnapshotLate ==
  /\ \/ /\ main.pc = "storage"
        /\ main' = [main EXCEPT !.pc = IF disk.path THEN "writer" ELSE "http",
                                !.loaded = IF disk.path THEN "pending" ELSE @]
        /\ UNCHANGED values
     \/ /\ main.loaded = "pending" /\ Alive
        /\ values' = IF FileLoad(disk).err THEN values ELSE StoreLoad(FileLoad(disk).snapshot)
        /\ main' = [main EXCEPT !.loaded = IF FileLoad(disk).err THEN "failed" ELSE "ok"]
  /\ UNCHANGED <<last, snap, taken, tasks, pool, pipe,
                 ctx, http, flusher, disk, cfg, built>>

\* main: if cfg.Storage.Path != "" { loadSnapshot(...), a warning on an error
MainLoadSnapshot ==
  /\ main.pc = "storage"
  /\ IF ~disk.path
       THEN /\ main' = [main EXCEPT !.pc = "http"]
            /\ UNCHANGED values
       ELSE /\ values' = IF FileLoad(disk).err THEN values
                         ELSE StoreLoad(FileLoad(disk).snapshot)
            /\ main' = [main EXCEPT !.pc = "writer",
                                    !.loaded = IF FileLoad(disk).err THEN "failed" ELSE "ok"]
  /\ UNCHANGED <<last, snap, taken, tasks, pool, pipe,
                 ctx, http, flusher, disk, cfg, built>>

\* main: startSnapshotWriter(...), which starts its goroutine and returns
MainStartSnapshotWriter ==
  /\ main.pc = "writer"
  /\ flusher' = "waiting"
  /\ main' = [main EXCEPT !.pc = "http"]
  /\ UNCHANGED <<values, last, snap, taken, tasks, pool, pipe,
                 ctx, http, disk, cfg, built>>

\* main: wg.Add(1); go func() { ... startHTTPServer(...) ... }()
MainStartHTTP ==
  /\ main.pc = "http"
  /\ http' = "serving"
  /\ main' = [main EXCEPT !.pc = "spawn", !.i = 1]
  /\ UNCHANGED <<values, last, snap, taken, tasks, pool, pipe,
                 ctx, flusher, disk, cfg, built>>

\* main: the next go statement of the loop over cfg.Routes, or its end
MainGo ==
  /\ main.pc = "spawn"
  /\ IF main.i > Len(SpawnOrder(cfg))
       THEN /\ main' = [main EXCEPT !.pc = "wait"]
            /\ UNCHANGED loop
       ELSE /\ loop' = [loop EXCEPT ![SpawnOrder(cfg)[main.i]].at = "read"]
            /\ main' = [main EXCEPT !.i = @ + 1]
  /\ UNCHANGED <<values, last, snap, taken, tasks, pool, writes,
                 ctx, http, flusher, disk, cfg, built>>

\* a Wait that the streamers are not counted in
MainWaitNotForStreamers ==
  /\ main.pc = "wait"
  /\ \A p \in Collectors : loop[p].at \in {"off", "stopped"}
  /\ http = "stopped"
  /\ main' = [main EXCEPT !.pc = "return"]
  /\ UNCHANGED <<values, last, snap, taken, tasks, pool, pipe,
                 ctx, http, flusher, disk, cfg, built>>

\* a Wait that returns when the loops are done, whatever the listener does
MainWaitLoopsOnly ==
  /\ main.pc = "wait"
  /\ \A p \in Loops : loop[p].at \in {"off", "stopped"}
  /\ main' = [main EXCEPT !.pc = "return"]
  /\ UNCHANGED <<values, last, snap, taken, tasks, pool, pipe,
                 ctx, http, flusher, disk, cfg, built>>

\* main: wg.Wait() returns: every goroutine of the group has called Done
MainWait ==
  /\ main.pc = "wait"
  /\ \A p \in Loops : loop[p].at \in {"off", "stopped"}
  /\ http = "stopped"
  /\ main' = [main EXCEPT !.pc = "return"]
  /\ UNCHANGED <<values, last, snap, taken, tasks, pool, pipe,
                 ctx, http, flusher, disk, cfg, built>>

\* main returns: the deferred writerPool.Close() and cancel(), and the
\* process exits; order is the order of the range over the writers
MainReturn(order, ok) ==
  /\ main.pc = "return"
  /\ order \in Perms(DOMAIN writers)
  /\ closed' = closed \o [i \in 1..Len(order) |->
                            [topic |-> order[i], writer |-> writers[order[i]], ok |-> ok]]
  /\ main' = [main EXCEPT !.pc = "exited"]
  /\ ctx' = IF ctx.done THEN ctx ELSE [done |-> TRUE, store |-> values]
  /\ UNCHANGED <<values, last, snap, taken, tasks, writers, pmu, made, topics, failed,
                 pipe, http, flusher, disk, cfg, built>>

\* os.Interrupt or SIGTERM arrives: the context of signal.NotifyContext is
\* done; store keeps what the store held at that moment
Cancel ==
  /\ Alive /\ main.pc # "config"
  /\ ~ctx.done
  /\ ctx' = [done |-> TRUE, store |-> values]
  /\ UNCHANGED <<values, last, snap, taken, tasks, pool, pipe,
                 main, http, flusher, disk, cfg, built>>

\* startHTTPServer: <-ctx.Done(); server.Shutdown(...), ListenAndServe
\* returns ErrServerClosed and the goroutine is done
HTTPShutdown ==
  /\ Alive /\ http = "serving"
  /\ ctx.done
  /\ http' = "stopped"
  /\ UNCHANGED <<values, last, snap, taken, tasks, pool, pipe,
                 main, ctx, flusher, disk, cfg, built>>

\* startHTTPServer: ListenAndServe returns another error (the address is in
\* use): the error is logged and the goroutine is done
HTTPListenError ==
  /\ Alive /\ http = "serving"
  /\ http' = "stopped"
  /\ UNCHANGED <<values, last, snap, taken, tasks, pool, pipe,
                 main, ctx, flusher, disk, cfg, built>>

\* a request to /reference/ served while the listener is up
HTTPServe(routeID, body) ==
  /\ Alive /\ http = "serving"
  /\ values' = ReferenceHandler(values, "POST", routeID, body).store
  /\ values' # values
  /\ UNCHANGED <<last, snap, taken, tasks, pool, pipe, life>>

\* a snapshot writer that returns when a save fails
FlusherTickStopOnError(ok) ==
  /\ Alive /\ flusher \in {"waiting", "warned"}
  /\ disk' = FileSave(disk, Listing(values), ok)
  /\ flusher' = IF ok THEN "waiting" ELSE "done"
  /\ disk' # disk \/ flusher' # flusher
  /\ UNCHANGED <<values, last, snap, taken, tasks, pool, pipe,
                 main, ctx, http, cfg, built>>

\* the goroutine of startSnapshotWriter is in its loop; "warned" after a
\* tick whose save failed
Flushing == flusher \in {"waiting", "warned"}

\* startSnapshotWriter: case <-ticker.C: SaveSnapshot, a warning on an error
FlusherTick(ok) ==
  /\ Alive /\ Flushing
  /\ disk' = FileSave(disk, Listing(values), ok)
  /\ flusher' = IF ok THEN "waiting" ELSE "warned"
  /\ disk' # disk \/ flusher' # flusher
  /\ UNCHANGED <<values, last, snap, taken, tasks, pool, pipe,
                 main, ctx, http, cfg, built>>

\* startSnapshotWriter: case <-ctx.Done(): _ = store.SaveSnapshot(path); return
FlusherFinal(ok) ==
  /\ Alive /\ Flushing
  /\ ctx.done
  /\ disk' = FileSave(disk, Listing(values), ok)
  /\ flusher' = "done"
  /\ UNCHANGED <<values, last, snap, taken, tasks, pool, pipe,
                 main, ctx, http, cfg, built>>

\* streamRoute, runReferenceCollector: ReadMessage(ctx) returns the error of
\* the context once it is done, and the loop returns it
ReadCancelled(p) ==
  /\ loop[p].at = "read"
  /\ ctx.done
  /\ loop' = [loop EXCEPT ![p] = [@ EXCEPT !.at = "stopped", !.prev = "context canceled"]]
  /\ UNCHANGED <<values, last, snap, taken, life, tasks, pool, writes>>

\* a step of a loop of a route that is not the failure of a read
LoopWork ==
  \/ \E p \in Streamers : \E msg \in SourceMessages(RouteOf(p)) :
        Reads < MaxLiveReads /\ StreamRead(p, msg)
  \/ \E p \in Collectors : \E msg \in ReferenceMessages(RouteOf(p)) :
        Reads < MaxLiveReads /\ CollectRead(p, msg)
  \/ \E p \in Loops : ReadCancelled(p)
  \/ \E p \in Streamers : StreamMatch(p)
  \/ \E p \in Streamers, dial \in DialResults,
        created \in {"", "Topic Already Exists", "Request Timed Out"} :
        StreamGet(p, dial, created)
  \/ \E p \in Streamers, ok \in BOOLEAN : StreamWrite(p, ok)
  \/ \E p \in Collectors : CollectProcess(p)

\* the process without a storage path: its start, its loops with the
\* failures of their reads, the listener, the signal and main's return
NextMain ==
  \/ MainLoadConfig
  \/ MainNewMatcher
  \/ MainLoadSnapshot
  \/ MainStartHTTP
  \/ MainGo
  \/ MainWait
  \/ \E order \in Perms(DOMAIN writers), ok \in BOOLEAN : MainReturn(order, ok)
  \/ Cancel
  \/ HTTPShutdown
  \/ HTTPListenError
  \/ HTTPServe(RouteB, JArr(<<JStr(Y24x1)>>))
  \/ LoopWork
  \/ \E p \in Streamers : StreamReadError(p)
  \/ \E p \in Collectors : CollectReadError(p)

SpecMain == InitMain /\ [][NextMain]_vars

\* a collector leaves ProcessReference: a step that is enabled exactly when
\* CollectProcess(p) is, and whose fairness asks what the fairness of
\* CollectProcess(p) asks, that the collector is not at "process" for ever
CollectorMovesOn(p) ==
  /\ loop[p].at = "process"
  /\ loop' = [loop EXCEPT ![p].at = "read"]
  /\ UNCHANGED <<values, last, snap, taken, life, tasks, pool, writes>>

\* a streamer leaves ShouldForward, Get or WriteMessages: a step that is
\* enabled exactly when StreamMatch(p), StreamGet(p, ..) or StreamWrite(p, ..)
\* is (the pool's mutex is free in every state of this process), and whose
\* fairness asks that the streamer is not at that call for ever
StreamerMovesOn(p, at) ==
  /\ loop[p].at = at
  /\ loop' = [loop EXCEPT ![p].at = "read"]
  /\ UNCHANGED <<values, last, snap, taken, life, tasks, pool, writes>>

\* the goroutines run: main goes on to its return, a loop handles the
\* message it has read, a read returns once the context is done, and the
\* listener shuts down once the context is done.  Nothing makes a message
\* arrive, a read fail or the signal come.
Scheduling ==
  /\ WF_vars(MainLoadConfig \/ MainNewMatcher \/ MainLoadSnapshot \/ MainStartHTTP
               \/ MainGo \/ MainWait)
  /\ WF_vars(\E order \in Perms(DOMAIN writers), ok \in BOOLEAN : MainReturn(order, ok))
  /\ WF_vars(HTTPShutdown)
  /\ \A p \in Loops : WF_vars(ReadCancelled(p))
  /\ \A p \in Streamers : \A at \in {"match", "get", "write"} :
        WF_vars(StreamerMovesOn(p, at))
  /\ \A p \in Collectors : WF_vars(CollectorMovesOn(p))

SpecMainFair == InitMain /\ [][NextMain]_vars /\ Scheduling

\* the process with a storage path: its start with the load of the
\* snapshot, the snapshot writer, the listener and its requests, the loops,
\* the signal and main's return; the reads of these runs do not fail
NextStorage ==
  \/ MainLoadConfig
  \/ MainNewMatcher
  \/ MainLoadSnapshot
  \/ MainStartSnapshotWriter
  \/ MainStartHTTP
  \/ MainGo
  \/ MainWait
  \/ \E order \in Perms(DOMAIN writers), ok \in BOOLEAN : MainReturn(order, ok)
  \/ Cancel
  \/ HTTPShutdown
  \/ HTTPServe(RouteB, JArr(<<JStr(Y24x1)>>))
  \/ FlusherTick(TRUE)
  \/ \E ok \in BOOLEAN : FlusherFinal(ok)
  \/ LoopWork

SpecStorage == InitStorage /\ [][NextStorage]_vars

\* the process with a storage path and the failures of its saves; the loops
\* are started and wait for messages until the context is done
NextFlush ==
  \/ MainLoadConfig
  \/ MainNewMatcher
  \/ MainLoadSnapshot
  \/ MainStartSnapshotWriter
  \/ MainStartHTTP
  \/ MainGo
  \/ MainWait
  \/ \E order \in Perms(DOMAIN writers), ok \in BOOLEAN : MainReturn(order, ok)
  \/ Cancel
  \/ HTTPShutdown
  \/ \E routeID \in Routes : HTTPServe(routeID, JArr(<<JStr(Y24x1)>>))
  \/ \E ok \in BOOLEAN : FlusherTick(ok)
  \/ \E ok \in BOOLEAN : FlusherFinal(ok)
  \/ \E p \in Loops : ReadCancelled(p)

SpecFlush == InitStorage /\ [][NextFlush]_vars

\* C22: the step in which a loop terminates on a read error changes no
\* other loop, nor main, the context or the listener; a loop that has
\* terminated is never changed again, so it reads nothing more; and while
\* a loop is still running main has not returned.
LoopFailureIsolation ==
  /\ [](\A p \in Loops : loop[p].at \notin {"off", "stopped"} => main.pc \in {"spawn", "wait"})
  /\ [][\A p \in Loops :
          /\ (loop[p].at # "stopped" /\ loop'[p].at = "stopped"
                /\ loop'[p].prev = "read failed") =>
                /\ \A q \in Loops \ {p} : loop'[q] = loop[q]
                /\ main' = main /\ ctx' = ctx /\ http' = http
          /\ loop[p].at = "stopped" => loop'[p] = loop[p]]_vars

LoopFailureIsolationWitness ==
  /\ main.pc = "wait" /\ ~ctx.done
  /\ \E p \in Collectors, q \in Streamers :
        /\ RouteOf(p) = RouteOf(q)
        /\ loop[p].at = "stopped" /\ loop[p].prev = "read failed"
        /\ loop[q].at = "match"
  /\ \A p \in Loops : RouteOf(p) = RouteB => loop[p].at = "read"

\* C23: once the context is done main returns and the process exits; main
\* does not return before every loop and the listener have stopped; and a
\* loop has stopped only if the context is done or its read failed.
CoordinatedShutdown ==
  /\ ctx.done ~> main.pc = "exited"
  /\ [](main.pc \in {"return", "exited"} =>
          /\ \A p \in Loops : loop[p].at = "stopped"
          /\ http = "stopped")
  /\ [](\A p \in Loops : loop[p].at = "stopped" =>
          (ctx.done \/ loop[p].prev = "read failed"))

CoordinatedShutdownWitness ==
  /\ main.pc = "exited"
  /\ \A p \in Loops : loop[p].at = "stopped" /\ loop[p].prev = "context canceled"
  /\ \E p \in Loops : loop[p].n = 1

\* C24: after a shutdown on the signal, with a storage path, the snapshot
\* file holds every value the store held when the signal came.
FinalSnapshotOnShutdown ==
  (main.pc = "exited" /\ disk.path) =>
     \A r \in DOMAIN ctx.store :
        ctx.store[r] \subseteq (IF disk.file = "ok" THEN Held(disk.content, r) ELSE {})

\* a loop, the listener or the snapshot writer has been started
Touched ==
  \/ \E p \in Loops : loop[p].at # "off"
  \/ http # "off"
  \/ flusher # "off"

\* C25: with a storage path, no loop, listener or snapshot writer is
\* started before loadSnapshot has returned; the load is made once, before
\* any of them; and a snapshot that was loaded is in the store they find.
StartupOrdering ==
  /\ [](Touched => main.loaded \in {"ok", "failed"})
  /\ [](main.loaded = "none" => values = EmptyStore)
  /\ [](main.loaded = "ok" => \A r \in DOMAIN SavedStore : SavedStore[r] \subseteq Held(values, r))
  /\ [][main'.loaded # main.loaded => (main.loaded = "none" /\ ~Touched)]_vars

StartupOrderingWitness ==
  /\ main.loaded = "ok"
  /\ flusher = "waiting" /\ http = "serving"
  /\ \E i \in 1..Len(writes) : writes[i].ok /\ writes[i].store = SavedStore

(***************************************************************************)
(* The start of the process over the configurations it can be given.       *)
(***************************************************************************)
RouteNames ==
  {<<"E", " ", "a">>, <<"e", "-", "a">>, <<"e", ".", "a">>, <<"e", "-", "b">>, << >>}

DestinationTopics == {<<"e", "/", "a">>, <<"e", "\\", "a">>, <<"t">>, << >>}

RouteChoices ==
  {ConfigRoute(n, d, 1, 1) : n \in RouteNames, d \in DestinationTopics}
    \cup {ConfigRoute(<<"e", "-", "a">>, <<"t">>, 0, 1),
          ConfigRoute(<<"e", "-", "a">>, <<"t">>, 1, 0)}

\* the route lists of the configurations: none, one or two routes
Configs == UNION {[1..n -> RouteChoices] : n \in 0..2}

InitConfig ==
  \E routes \in Configs :
     \E d \in {NoDisk, [path |-> TRUE, file |-> "ok", content |-> SavedStore]} :
        Started(routes, d)

NextConfig ==
  \/ MainLoadConfig
  \/ MainNewMatcher
  \/ MainLoadSnapshot
  \/ MainStartSnapshotWriter
  \/ MainStartHTTP
  \/ MainGo

SpecConfig == InitConfig /\ [][NextConfig]_vars

\* two routes of the configuration resolve to one route identifier
Duplicated ==
  \E i, j \in 1..Len(cfg) : i # j /\ routeKey(cfg[i]) = routeKey(cfg[j])

\* C26: with two routes that resolve to one route identifier the start
\* fails before anything is started; so whenever a loop runs, every route
\* has a matcher of its own under its identifier.
RouteIdentifiersUnique ==
  /\ Duplicated => (main.pc \in {"config", "fatal"} /\ ~Touched)
  /\ (\E p \in Loops : loop[p].at # "off") =>
        \A i \in 1..Len(cfg) : built[routeKey(cfg[i])] = i

(***************************************************************************)
(* The matcher's ingest calls and Clear under concurrent callers.  A       *)
(* ProcessReference or AddValues call is a loop of MatchStore.Add calls,   *)
(* each of which takes s.mu on its own; Clear takes s.mu once.             *)
(***************************************************************************)
RECURSIVE VariantOrders(_)
\* the orders in which the two loops of an ingest call can reach the
\* variants: the values in order, the variants of each in map order
VariantOrders(vals) ==
  IF vals = << >> THEN {<< >>}
  ELSE {h \o t : h \in Perms(yearVariants(Head(vals))), t \in VariantOrders(Tail(vals))}

\* the reference messages the collector ingests, on the route it serves
IngestPayloads ==
  {Obj2(KeyA, JStr(Y24x1), KeyS, Obj1(KeyB, JStr(Plain))), Malformed}

\* the arrays the injector posts
IngestArrays == {<<Y2024x2>>, << >>}

\* ProcessReference up to its loop: the feed, the payload, the values
CallProcessReference(p, route, topic, headers, payload) ==
  LET m == Matchers[route]
      f == feedFor(m, topic, headers)
      u == UnmarshalObject(payload)
      x == extractMatchValues(u.body, f.feed.fields)
  IN  /\ pc[p] = "idle"
      /\ IF ~f.ok \/ u.err \/ x.err # ""
           THEN /\ pc' = [pc EXCEPT ![p] = "returned"]
                /\ call' = [call EXCEPT ![p] = [Idle EXCEPT !.op = "Add", !.route = route,
                                                            !.arg = << >>, !.todo = << >>,
                                                            !.out = FALSE, !.ret = FALSE]]
           ELSE \E order \in VariantOrders(x.values) :
                /\ pc' = [pc EXCEPT ![p] = "range"]
                /\ call' = [call EXCEPT ![p] = [Idle EXCEPT !.op = "Add", !.route = route,
                                                            !.arg = order, !.todo = order,
                                                            !.out = FALSE]]
      /\ UNCHANGED <<values, last, snap, taken, beyond, cut, mu, whole, seen>>

\* AddValues up to its loop: added := false
CallAddValues(p, route, vals) ==
  /\ pc[p] = "idle"
  /\ \E order \in VariantOrders(vals) :
       /\ pc' = [pc EXCEPT ![p] = "range"]
       /\ call' = [call EXCEPT ![p] = [Idle EXCEPT !.op = "Add", !.route = route,
                                                   !.arg = order, !.todo = order,
                                                   !.out = FALSE]]
  /\ UNCHANGED <<values, last, snap, taken, beyond, cut, mu, whole, seen>>

\* for _, v := range values { for _, variant := range yearVariants(v) {
\* m.store.Add(...) up to its s.mu.Lock(), or return added
IngestRange(p) ==
  /\ pc[p] = "range"
  /\ IF call[p].todo = << >>
       THEN /\ pc' = [pc EXCEPT ![p] = "returned"]
            /\ call' = [call EXCEPT ![p].ret = call[p].out]
       ELSE /\ pc' = [pc EXCEPT ![p] = "Lock"]
            /\ UNCHANGED call
  /\ UNCHANGED <<values, last, snap, taken, beyond, cut, mu, whole, seen>>

\* an ingest call that stores the value as it came and none of its variants
IngestAddValueOnly(p) ==
  LET r == StoreAdd(values, call[p].route, Head(call[p].todo))
  IN  /\ pc[p] = "Add"
      /\ values' = r.store
      /\ call' = [call EXCEPT ![p].todo = << >>, ![p].out = @ \/ r.ret]
      /\ pc' = [pc EXCEPT ![p] = "Unlock"]
      /\ UNCHANGED <<last, snap, taken, beyond, cut, mu, whole, seen>>

\* the body of Add for one variant, and if m.store.Add(...) { added = true }
IngestAdd(p) ==
  LET r == StoreAdd(values, call[p].route, Head(call[p].todo))
  IN  /\ pc[p] = "Add"
      /\ values' = r.store
      /\ call' = [call EXCEPT ![p].todo = Tail(@), ![p].out = @ \/ r.ret]
      /\ pc' = [pc EXCEPT ![p] = "Unlock"]
      /\ UNCHANGED <<last, snap, taken, beyond, cut, mu, whole, seen>>

\* the deferred s.mu.Unlock() of Add and of Clear
StoreUnlock(p) ==
  /\ pc[p] = "Unlock"
  /\ mu' = [mu EXCEPT !.writer = ""]
  /\ whole' = values
  /\ pc' = [pc EXCEPT ![p] = IF call[p].op = "Add" THEN "range" ELSE "returned"]
  /\ UNCHANGED <<values, last, snap, taken, beyond, cut, call, seen>>

\* a task calls Clear
CallClear(p) ==
  /\ pc[p] = "idle"
  /\ pc' = [pc EXCEPT ![p] = "Lock"]
  /\ call' = [call EXCEPT ![p] = [Idle EXCEPT !.op = "Clear"]]
  /\ UNCHANGED <<values, last, snap, taken, beyond, cut, mu, whole, seen>>

\* Clear: removed := 0; for _, routeMap := range s.values
ClearRange(p) ==
  /\ pc[p] = "Clear"
  /\ call' = [call EXCEPT ![p].todo = DOMAIN values, ![p].out = 0]
  /\ pc' = [pc EXCEPT ![p] = "ClearCount"]
  /\ UNCHANGED <<values, last, snap, taken, beyond, cut, mu, whole, seen>>

\* Clear: one round of the loop, removed += len(routeMap), or its end
ClearCount(p) ==
  /\ pc[p] = "ClearCount"
  /\ IF call[p].todo = {}
       THEN /\ pc' = [pc EXCEPT ![p] = "ClearReset"]
            /\ UNCHANGED call
       ELSE \E route \in call[p].todo :
              /\ call' = [call EXCEPT ![p].todo = @ \ {route},
                                      ![p].out = @ + StoreSize(values, route)]
              /\ pc' = [pc EXCEPT ![p] = "ClearCount"]
  /\ UNCHANGED <<values, last, snap, taken, beyond, cut, mu, whole, seen>>

\* an ingest call that has made some of its Adds and has more to make
PartWay(p) ==
  /\ pc[p] \in {"range", "Lock", "Add", "Unlock"}
  /\ call[p].op = "Add"
  /\ call[p].todo # << >>
  /\ Len(call[p].todo) < Len(call[p].arg)

\* Clear: s.values = make(...); return removed
ClearReset(p) ==
  /\ pc[p] = "ClearReset"
  /\ values' = EmptyStore
  /\ call' = [call EXCEPT ![p].ret = call[p].out]
  /\ cut' = (\E q \in Ingesters : PartWay(q))
  /\ pc' = [pc EXCEPT ![p] = "Unlock"]
  /\ UNCHANGED <<last, snap, taken, beyond, mu, whole, seen>>

NextIngest ==
  \/ \E payload \in IngestPayloads :
        CallProcessReference("collector", RouteB, Topic2, NoHeaders, payload)
  \/ \E vals \in IngestArrays : CallAddValues("injector", RouteA, vals)
  \/ \E p \in Ingesters : IngestRange(p)
  \/ \E p \in Ingesters \cup Clearers : Lock(p)
  \/ \E p \in Ingesters : IngestAdd(p)
  \/ \E p \in Ingesters \cup Clearers : StoreUnlock(p)
  \/ \E p \in Ingesters \cup Clearers : TaskReturn(p)
  \/ \E p \in Clearers : CallClear(p)
  \/ \E p \in Clearers : ClearRange(p)
  \/ \E p \in Clearers : ClearCount(p)
  \/ \E p \in Clearers : ClearReset(p)

SpecIngest == Init /\ [][NextIngest]_vars

\* every value of s is in its route's set together with its year-variants
VariantClosed(s) ==
  \A r \in DOMAIN s : \A v \in s[r] : \A w \in AllStrings :
     SameUpToCentury(v, w) => w \in s[r]

\* no ingest call is under way
NoIngestUnderWay == \A p \in Ingesters : pc[p] = "idle"

\* C31 as stated: with values entering through ProcessReference and
\* AddValues only, and no such call under way, every value of a route's set
\* has all its year-variants in that set, a concurrent Clear or not
StoredSetsVariantClosed == NoIngestUnderWay => VariantClosed(values)

\* C31 amended: with values entering through ProcessReference and AddValues
\* only, no such call under way, and the last Clear not fallen between the
\* Adds of one such call, every value of a route's set has all its
\* year-variants in that set
VariantClosedUnlessCut == (NoIngestUnderWay /\ ~cut) => VariantClosed(values)

\* a Clear ran beside the ingest calls, between calls or before the first
\* Add of one, and a value is held with its other variant
VariantClosedUnlessCutWitness ==
  /\ NoIngestUnderWay /\ ~cut
  /\ pc["resetter"] = "returned"
  /\ \E r \in DOMAIN values : \E v, w \in values[r] : v # w /\ SameUpToCentury(v, w)

\* a Clear between its s.mu.Lock() and the statement that empties the store
Counting(p) == pc[p] \in {"Clear", "ClearCount", "ClearReset"}

\* C34: Clear is linearizable against concurrent Adds: from its Lock to the
\* statement that empties the store the store stands still, so there is one
\* instant of which it counts the values; the count it returns is the
\* number of values present then and all of them are removed; and a value
\* added after that is still present when Clear returns
ClearLinearizable ==
  /\ [](\A p \in Clearers : Counting(p) => values = whole)
  /\ [][\A p \in Clearers :
          (pc[p] = "ClearReset" /\ pc'[p] = "Unlock") =>
             /\ call'[p].ret = Cardinality(Pairs(values))
             /\ values' = EmptyStore]_vars
  /\ [][\A p \in Clearers :
          (pc[p] \in {"Unlock", "returned"}) => Pairs(values) \subseteq Pairs(values')]_vars

\* a Clear has returned a count of two or more, taken while an ingest call
\* was part-way, and a value of that call added since is in the store
ClearLinearizableWitness ==
  /\ pc["resetter"] = "returned"
  /\ call["resetter"].ret >= 2
  /\ cut
  /\ values # EmptyStore

\* the steps by which main goes on from loadSnapshot to its return
StartupSteps ==
  {<<"storage", "writer">>, <<"writer", "http">>, <<"http", "spawn">>,
   <<"spawn", "wait">>, <<"wait", "return">>, <<"return", "exited">>}

\* C32: persistence errors are non-fatal.  A load of the snapshot that
\* fails leaves the store empty and unchanged, and main goes on through
\* its start, so that when it waits every loop and the snapshot writer
\* have been started.  A periodic save that fails changes neither the
\* store nor the file, the snapshot writer stays in its loop, where the
\* next tick can save, and it ends only once the context is done.
PersistenceErrorsNonFatal ==
  /\ [][(main.loaded # "failed" /\ main'.loaded = "failed") =>
          (values = EmptyStore /\ values' = EmptyStore)]_vars
  /\ [][(main'.loaded = "failed" /\ main'.pc # main.pc) =>
          <<main.pc, main'.pc>> \in StartupSteps]_vars
  /\ []((main.loaded = "failed" /\ main.pc \in {"wait", "return", "exited"}) =>
          /\ flusher # "off"
          /\ \A p \in Loops : loop[p].at # "off")
  /\ [][(flusher = "waiting" /\ flusher' = "warned") =>
          (values' = values /\ disk' = disk)]_vars
  /\ []((flusher = "warned" /\ Alive) => ENABLED FlusherTick(TRUE))
  /\ [][(Flushing /\ ~Flushing') => (flusher' = "done" /\ ctx.done)]_vars

\* the load failed at the start and a periodic save has just failed, and
\* the loops run and the store holds what was posted since
PersistenceErrorsNonFatalWitness ==
  /\ main.loaded = "failed"
  /\ flusher = "warned"
  /\ main.pc = "wait" /\ ~ctx.done
  /\ values # EmptyStore
  /\ \A p \in Loops : loop[p].at \notin {"off", "stopped"}

(***************************************************************************)
(* The dialing of ensureTopicExists over the broker lists it can be given. *)
(***************************************************************************)
\* the addresses of the bridge cluster
BrokerAddrs == {"b1", "b2", "b3"}

\* the lists of the configuration
BrokerLists == {<< >>, <<"b1">>, <<"b1", "b2">>, <<"b2", "b1">>}

\* the address conn.Controller() reports, "" when it fails
Controllers == BrokerAddrs \cup {""}

\* ensureTopicExists up to CreateTopics: how the dialing ends, given the
\* addresses that accept a connection
dialBrokers(brokers, reachable, controller) ==
  IF Len(brokers) = 0 THEN "no brokers configured"
  ELSE IF brokers[1] \notin reachable THEN "dial broker"
  ELSE IF controller = "" THEN "get controller"
  ELSE IF controller \notin reachable THEN "dial controller"
  ELSE "ok"

\* a call of ensureTopicExists(p.brokers, p.dialer, topic)
EnsureTopic(brokers, reachable, controller, created) ==
  /\ last.op = "none"
  /\ UNCHANGED <<values, aside>>
  /\ last' = Done("ensureTopicExists", "",
                  [brokers |-> brokers, reachable |-> reachable,
                   controller |-> controller, created |-> created],
                  ensureTopicExists(dialBrokers(brokers, reachable, controller), created))

NextDial ==
  \/ \E brokers \in BrokerLists, reachable \in SUBSET BrokerAddrs,
        controller \in Controllers,
        created \in {"", "Topic Already Exists", "Request Timed Out"} :
        EnsureTopic(brokers, reachable, controller, created)
  \/ Return

SpecDial == Init /\ [][NextDial]_vars

\* C33: the ensure step of Get fails for being unable to dial a broker
\* only if no broker of the configured list is reachable
DialFailsOnlyIfNoneReachable ==
  last.op = "ensureTopicExists" =>
    ((\E i \in 1..Len(last.arg.brokers) : last.arg.brokers[i] \in last.arg.reachable)
       => last.ret # "dial broker")

\* C35: the writer pool is closed only after every source streamer has
\* terminated: writers are closed by main's return alone, every streamer
\* has stopped when main returns, and after that no streamer takes a step,
\* so no Get and no write follows the Close
NoUseOfClosedWriter ==
  /\ [][closed' # closed => (main.pc = "return" /\ main'.pc = "exited")]_vars
  /\ [][(main.pc # "exited" /\ main'.pc = "exited") =>
          \A p \in Streamers : loop[p].at = "stopped"]_vars
  /\ [][main.pc = "exited" =>
          /\ writes' = writes
          /\ writers' = writers /\ made' = made
          /\ \A p \in Streamers : loop'[p] = loop[p]]_vars

\* main has returned and closed a writer that a streamer had got and
\* written on
NoUseOfClosedWriterWitness ==
  /\ main.pc = "exited"
  /\ \E i \in 1..Len(closed) : \E j \in 1..Len(writes) :
        writes[j].topic = closed[i].topic
  /\ \A p \in Streamers : loop[p].at = "stopped"

====
